---- MODULE Spec2Model ----
(***************************************************************************)
(* Model of the dkg-cli protocol orchestration (create-message and         *)
(* process-all) of seal-keyserver/seal/crates/dkg-cli, together with the   *)
(* committee helpers of seal-committee it calls.  The DKG engine           *)
(* (fastcrypto_tbls::dkg_v1::Party) is an external collaborator: each of   *)
(* its calls is a nondeterministic choice over the results its signature   *)
(* allows.                                                                 *)
(***************************************************************************)
EXTENDS Integers, Sequences, FiniteSets, TLC

VARIABLES
    disk,        \* state.json of the state directory: Option<DkgState>
    pc,          \* position of the running command
    state,       \* process-all: the in-memory DkgState (Option)
    messages,    \* process-all: the SignedMessages read from the directory
    idx,         \* process-all: 1-based index of the loop over messages
    err,         \* the return site of the failure that ended the command
    log,         \* calls made by the current invocation, in order
    diskAtStart, \* state.json as it was when the current invocation began
    ledger,      \* the committee objects on the ledger, by object id
    args,        \* the arguments of the running command (Option)
    result,      \* helpers applied on their own: the value returned
    files        \* the keys file and the message artifact: content and mode

vars == <<disk, pc, state, messages, idx, err, log, diskAtStart, ledger, args, result,
          files>>

\* ---------------------------------------------------------------- bounds
\* Largest number of files in a messages directory.
MaxMsgs == 3
\* Longest persisted processed-message list a process-all invocation is
\* started on.
MaxResumed == 2
\* Longest member list of the committees the helpers are applied to.
MaxMembers == 3
\* Most message files in the listings process-all is run on in two orders.
MaxListed == 2

\* ------------------------------------------------------------- Option<T>
None == <<>>
Some(x) == <<x>>
is_some(o) == o # <<>>
is_none(o) == o = <<>>
unwrap(o) == o[1]

\* --------------------------------------------------------------- keys
Addrs == {"a1", "a2", "a3", "a4"}

\* The addresses whose owners run the tool on the modelled state directory.
Callers == {"a1", "a2", "a4"}

\* Public key of a secret key (PublicKey::from_private_key, KeyPair::public).
PublicOf(sk) == [pub_of |-> sk]

\* The keys file an address's owner generated (Commands::GenerateKeys).
KeysOf(a) ==
    [enc_sk |-> [enc |-> a], enc_pk |-> PublicOf([enc |-> a]),
     signing_sk |-> [sig |-> a], signing_pk |-> PublicOf([sig |-> a])]

\* --------------------------------------------------------------- ledger
\* MemberInfo registered on chain by address a.
MemberInfo(a) == [enc_pk |-> KeysOf(a).enc_pk, signing_pk |-> KeysOf(a).signing_pk]

\* VecMap<Address, MemberInfo> holding the registrations of the addresses in S.
Registered(S) == [a \in S |-> MemberInfo(a)]

\* The committee objects on the ledger when the first command runs, by
\* object id.
Ledger ==
    [cFresh |-> [id |-> "cFresh", threshold |-> 2, members |-> <<"a1", "a2">>,
                 state |-> [kind |-> "Init", members_info |-> Registered({"a1", "a2"})],
                 old_committee_id |-> None],
     cRot   |-> [id |-> "cRot", threshold |-> 2, members |-> <<"a1", "a2", "a3">>,
                 state |-> [kind |-> "Init", members_info |-> Registered({"a1", "a2", "a3"})],
                 old_committee_id |-> Some("cOld")],
     cOld   |-> [id |-> "cOld", threshold |-> 2, members |-> <<"a2", "a3">>,
                 state |-> [kind |-> "Finalized"],
                 old_committee_id |-> None],
     cPost  |-> [id |-> "cPost", threshold |-> 2, members |-> <<"a1", "a2">>,
                 state |-> [kind |-> "PostDKG", members_info |-> Registered({"a1", "a2"})],
                 old_committee_id |-> None],
     cUnreg |-> [id |-> "cUnreg", threshold |-> 2, members |-> <<"a1", "a2">>,
                 state |-> [kind |-> "Init", members_info |-> Registered({"a1"})],
                 old_committee_id |-> None]]

CommitteeIds == DOMAIN Ledger

\* fetch_committee_data reading a snapshot kept from an earlier fetch.
fetch_committee_data_Cached(committee_id) == Ledger[committee_id]

fetch_committee_data(committee_id) == ledger[committee_id]

\* G2Element::generator() * share
G2Mul(share) == [g2_of |-> share]

\* The old share of the member with the given old party id.
OldShare(old_party_id) == [share |-> old_party_id]

\* Partial key server records published by the old committee: old party id ->
\* partial public key.
fetch_partial_key_server_info(committee_id) ==
    [p \in 0..(Len(ledger[committee_id].members) - 1) |-> G2Mul(OldShare(p))]

\* ------------------------------------------------------ SealCommittee
RECURSIVE position(_, _, _)
\* Iterator::position: zero-based index of the first element equal to x
\* at or after 1-based index i; None when there is none.
position(s, x, i) ==
    IF i > Len(s) THEN None
    ELSE IF s[i] = x THEN Some(i - 1)
    ELSE position(s, x, i + 1)

get_party_id(committee, member_addr) == position(committee.members, member_addr, 1)

\* is_init accepting every state that carries a registration table, as
\* get_members_info does.
is_init_AcceptsPostDKG(committee) == committee.state.kind \in {"Init", "PostDKG"}

is_init(committee) == committee.state.kind = "Init"

\* contains answering yes for every address.
contains_Always(committee, member_addr) == TRUE

contains(committee, member_addr) == \E i \in 1..Len(committee.members) : committee.members[i] = member_addr

\* HashMap::insert: the map with key k bound to v, replacing an earlier
\* binding of k.
insert(map, k, v) == [x \in (DOMAIN map) \cup {k} |-> IF x = k THEN v ELSE map[x]]

RECURSIVE collect_members(_, _, _, _)
\* The enumerate/map/collect of get_members_info from 1-based index i on:
\* Err (None) at the first member without a registration, otherwise the map
\* address -> ParsedMemberInfo with the entries inserted in list order.
collect_members(members, info_map, i, acc) ==
    IF i > Len(members) THEN Some(acc)
    ELSE IF members[i] \notin DOMAIN info_map THEN None
    ELSE collect_members(members, info_map, i + 1,
            insert(acc, members[i],
                   [party_id |-> i - 1,
                    address |-> members[i],
                    enc_pk |-> info_map[members[i]].enc_pk,
                    signing_pk |-> info_map[members[i]].signing_pk]))

\* get_members_info that silently omits unregistered members.
get_members_info_SkipsUnregistered(committee) ==
    IF committee.state.kind \notin {"Init", "PostDKG"} THEN None
    ELSE collect_members(
            SelectSeq(committee.members,
                      LAMBDA a : a \in DOMAIN committee.state.members_info),
            committee.state.members_info, 1, <<>>)

\* Ok(map address -> ParsedMemberInfo) as Some(map); Err as None.
get_members_info(committee) ==
    IF committee.state.kind \notin {"Init", "PostDKG"} THEN None
    ELSE collect_members(committee.members, committee.state.members_info, 1, <<>>)

\* build_new_to_old_map keyed by old party id.
build_new_to_old_map_Inverted(new_committee, old_committee) ==
    [q \in {unwrap(get_party_id(old_committee, new_committee.members[j])) :
               j \in {k \in 1..Len(new_committee.members) :
                         is_some(get_party_id(old_committee, new_committee.members[k]))}} |->
        unwrap(get_party_id(new_committee, old_committee.members[q + 1]))]

\* build_new_to_old_map that gives a member absent from the old committee the
\* old party id 0.
build_new_to_old_map_MapsJoiners(new_committee, old_committee) ==
    [p \in 0..(Len(new_committee.members) - 1) |->
        IF is_some(get_party_id(old_committee, new_committee.members[p + 1]))
        THEN unwrap(get_party_id(old_committee, new_committee.members[p + 1]))
        ELSE 0]

build_new_to_old_map(new_committee, old_committee) ==
    [p \in {i - 1 : i \in {j \in 1..Len(new_committee.members) :
                              is_some(get_party_id(old_committee, new_committee.members[j]))}} |->
        unwrap(get_party_id(old_committee, new_committee.members[p + 1]))]

\* ------------------------------------------------------------- messages
\* bcs::to_bytes of a Message: the canonical encoding of its fields.
to_bytes(message) == <<"msg", message.sender>>

\* Bytes that are the canonical encoding of no message of the model.
AlteredBytes == <<"altered">>

\* Signer::sign over message bytes.
sign(sk, bytes) == [signer |-> sk, bytes |-> bytes]

\* VerifyingKey::verify: the signature was made over these bytes by the
\* secret key of pk.
verify(pk, bytes, signature) == PublicOf(signature.signer) = pk /\ signature.bytes = bytes

\* sign_message signing other bytes than the canonical bytes of the message.
sign_message_OtherBytes(message, sk) == [message |-> message, signature |-> sign(sk, AlteredBytes)]

sign_message(message, sk) == [message |-> message, signature |-> sign(sk, to_bytes(message))]

\* verify_signature checking the bytes but not which key signed them.
verify_signature_AnyKey(signed_msg, pk) ==
    signed_msg.signature.bytes = to_bytes(signed_msg.message)

\* verify_signature checking which key signed but not the bytes signed.
verify_signature_AnyBytes(signed_msg, pk) == PublicOf(signed_msg.signature.signer) = pk

verify_signature(signed_msg, pk) == verify(pk, to_bytes(signed_msg.message), signed_msg.signature)

\* Nodes::new over the parsed members: one node of weight 1 per party id.
NodesOf(members_info) ==
    [p \in {members_info[a].party_id : a \in DOMAIN members_info} |->
        [id |-> p,
         pk |-> members_info[CHOOSE a \in DOMAIN members_info :
                                 members_info[a].party_id = p].enc_pk,
         weight |-> 1]]

num_nodes(nodes) == Cardinality(DOMAIN nodes)

SigningPksOf(members_info) ==
    [p \in {members_info[a].party_id : a \in DOMAIN members_info} |->
        members_info[CHOOSE a \in DOMAIN members_info : members_info[a].party_id = p].signing_pk]

\* ------------------------------------------------------- create-message
\* One call of the invocation: the operation, the index of the message it is
\* about (0 when none) and what was passed and returned.
Event(op, i, info) == [op |-> op, i |-> i, info |-> info]

\* DkgState::save: the content of state.json after saving st.
save(st) == Some(st)

\* A keys file holding the encryption key pair of address a and the signing
\* key pair of address b.
KeysFile(a, b) ==
    [enc_sk |-> KeysOf(a).enc_sk, enc_pk |-> KeysOf(a).enc_pk,
     signing_sk |-> KeysOf(b).signing_sk, signing_pk |-> KeysOf(b).signing_pk]

\* What the keys-file argument can point at: a missing file, the keys file
\* of one of the addresses, or a file with the encryption key pair of a1 and
\* the signing key pair of a2.
KeysFiles == {None} \cup {Some(KeysFile(a, a)) : a \in Callers} \cup {Some(KeysFile("a1", "a2"))}

\* What --old-share can carry: nothing, or the share of old party 0.
OldShareArgs == {None, Some(OldShare(0))}

\* The local keys pass the comparison only if one of the two keys matches.
KeysMatch_EitherKey(local_keys, my_member_info) ==
    local_keys.enc_pk = my_member_info.enc_pk
        \/ local_keys.signing_pk = my_member_info.signing_pk

\* The PK validation of Commands::CreateMessage: the command goes on only
\* when neither local public key differs from the registered one.
KeysMatch(local_keys, my_member_info) ==
    ~(local_keys.enc_pk # my_member_info.enc_pk
        \/ local_keys.signing_pk # my_member_info.signing_pk)

\* Rotation parameters without the check of a continuing member's share.
RotationParams_NoContinuingCheck(committee, my_address, my_old_share) ==
    IF is_none(committee.old_committee_id)
    THEN IF is_some(my_old_share) THEN None
         ELSE Some([old_threshold |-> None, new_to_old_mapping |-> None,
                    expected_old_pks |-> None])
    ELSE LET old_committee_id == unwrap(committee.old_committee_id)
             old_committee == fetch_committee_data(old_committee_id)
         IN  IF is_some(my_old_share) /\ ~contains(old_committee, my_address) THEN None
             ELSE Some([old_threshold |-> Some(old_committee.threshold),
                        new_to_old_mapping |->
                            Some(build_new_to_old_map(committee, old_committee)),
                        expected_old_pks |->
                            Some(fetch_partial_key_server_info(old_committee_id))])

\* Rotation parameters where a fresh DKG ignores a supplied old share.
RotationParams_FreshIgnoresShare(committee, my_address, my_old_share) ==
    IF is_none(committee.old_committee_id)
    THEN Some([old_threshold |-> None, new_to_old_mapping |-> None,
               expected_old_pks |-> None])
    ELSE LET old_committee_id == unwrap(committee.old_committee_id)
             old_committee == fetch_committee_data(old_committee_id)
         IN  IF is_some(my_old_share) # contains(old_committee, my_address) THEN None
             ELSE Some([old_threshold |-> Some(old_committee.threshold),
                        new_to_old_mapping |->
                            Some(build_new_to_old_map(committee, old_committee)),
                        expected_old_pks |->
                            Some(fetch_partial_key_server_info(old_committee_id))])

\* Rotation parameters that leave out the partial public keys of the old
\* committee.
RotationParams_NoOldPks(committee, my_address, my_old_share) ==
    IF is_none(committee.old_committee_id)
    THEN IF is_some(my_old_share) THEN None
         ELSE Some([old_threshold |-> None, new_to_old_mapping |-> None,
                    expected_old_pks |-> None])
    ELSE LET old_committee_id == unwrap(committee.old_committee_id)
             old_committee == fetch_committee_data(old_committee_id)
         IN  IF is_some(my_old_share) # contains(old_committee, my_address) THEN None
             ELSE Some([old_threshold |-> Some(old_committee.threshold),
                        new_to_old_mapping |->
                            Some(build_new_to_old_map(committee, old_committee)),
                        expected_old_pks |-> None])

\* Rotation parameters of Commands::CreateMessage: Err as None, otherwise
\* Some of (old_threshold, new_to_old_mapping, expected_old_pks).
RotationParams(committee, my_address, my_old_share) ==
    IF is_none(committee.old_committee_id)
    THEN IF is_some(my_old_share) THEN None
         ELSE Some([old_threshold |-> None, new_to_old_mapping |-> None,
                    expected_old_pks |-> None])
    ELSE LET old_committee_id == unwrap(committee.old_committee_id)
             old_committee == fetch_committee_data(old_committee_id)
         IN  IF is_some(my_old_share) # contains(old_committee, my_address) THEN None
             ELSE Some([old_threshold |-> Some(old_committee.threshold),
                        new_to_old_mapping |->
                            Some(build_new_to_old_map(committee, old_committee)),
                        expected_old_pks |->
                            Some(fetch_partial_key_server_info(old_committee_id))])

\* A message is created whatever the role of the caller.
CreatesMessage_Always(old_threshold, my_old_share) == TRUE

\* The condition of Commands::CreateMessage under which the party creates a
\* message: a fresh DKG, or a rotation in which it holds an old share.
CreatesMessage(old_threshold, my_old_share) ==
    is_none(old_threshold) \/ is_some(my_old_share)

\* The DkgState built at the end of Commands::CreateMessage.
NewDkgState(committee, my_party_id, members_info, rot, my_old_share, my_message) ==
    [config |->
        [my_party_id |-> my_party_id,
         nodes |-> NodesOf(members_info),
         committee_id |-> committee.id,
         threshold |-> committee.threshold,
         signing_pks |-> SigningPksOf(members_info),
         old_threshold |-> rot.old_threshold,
         new_to_old_mapping |-> rot.new_to_old_mapping,
         expected_old_pks |-> rot.expected_old_pks,
         my_old_share |-> my_old_share,
         my_old_pk |-> IF is_some(my_old_share) THEN Some(G2Mul(unwrap(my_old_share)))
                       ELSE None],
     my_message |-> my_message,
     processed_messages |-> <<>>,
     confirmation |-> None,
     output |-> None]

\* RandomOracle::new: the domain-separation tag of the engine.
RandomOracle(tag) == [random_oracle_of |-> tag]

\* What Commands::CreateMessage passes to Party::new_advanced besides the
\* encryption secret of the keys file and the random number generator.
NewAdvancedArgsOfCreate(committee, committee_id, members_info, my_old_share, old_threshold) ==
    [nodes |-> NodesOf(members_info),
     threshold |-> committee.threshold,
     random_oracle |-> RandomOracle(committee_id),
     old_share |-> my_old_share,
     old_threshold |-> old_threshold]

\* The return site at which Commands::CreateMessage fails, "ok" when it
\* saves the state.  engine_ok: Party::new_advanced and create_message
\* succeed.
CreateMessageResult(my_address, committee_id, keys_file, old_share, engine_ok) ==
    LET committee == fetch_committee_data(committee_id)
        members_info == get_members_info(committee)
        local_keys == unwrap(keys_file)
        mine == unwrap(members_info)[my_address]
        rot == RotationParams(committee, my_address, old_share)
    IN  IF is_none(keys_file) THEN "KeysLoad"
        ELSE IF ~is_init(committee) THEN "NotInit"
        ELSE IF ~contains(committee, my_address) THEN "NotAMember"
        ELSE IF is_none(members_info) THEN "NotRegistered"
        ELSE IF my_address \notin DOMAIN unwrap(members_info) THEN "NotInMembersInfo"
        ELSE IF ~KeysMatch(local_keys, mine) THEN "KeyMismatch"
        ELSE IF is_none(rot)
             THEN IF is_none(committee.old_committee_id) THEN "OldShareForFresh"
                  ELSE "RotationRole"
        ELSE IF CreatesMessage(unwrap(rot).old_threshold, old_share) /\ ~engine_ok
             THEN "EngineFailure"
        ELSE "ok"

\* The calls Commands::CreateMessage has made when it returns at site res:
\* the ledger fetches, the creation of the party and its message, the write
\* of the message artifact and the save.
CreateMessageLog(res, committee, party_args, signed_msg) ==
    (IF res = "KeysLoad" THEN <<>> ELSE <<Event("fetch", 0, Some(committee.id))>>)
    \o (IF res \in {"RotationRole", "EngineFailure", "ok"}
            /\ is_some(committee.old_committee_id)
        THEN <<Event("fetch", 0, committee.old_committee_id)>> ELSE <<>>)
    \o (IF res \in {"EngineFailure", "ok"} /\ is_some(party_args)
        THEN <<Event("create_message", 0, party_args)>> ELSE <<>>)
    \o (IF res = "ok" /\ is_some(signed_msg)
        THEN <<Event("write_message", 0, signed_msg)>> ELSE <<>>)
    \o (IF res = "ok" THEN <<Event("save", 0, None)>> ELSE <<>>)

\* The command starts by emptying the state directory.
PersistedByCreate_ClearsFirst(res, st, old_disk) ==
    IF res = "ok" THEN save(st) ELSE None

\* The command leaves a state it finds in the directory in place.
PersistedByCreate_KeepsExisting(res, st, old_disk) ==
    IF res = "ok" /\ is_none(old_disk) THEN save(st) ELSE old_disk

\* state.json when Commands::CreateMessage returns at site res: the one save
\* is the last statement of the command.
PersistedByCreate(res, st, old_disk) ==
    IF res = "ok" THEN save(st) ELSE old_disk

\* Commands::CreateMessage.
CreateMessage ==
    /\ pc = "idle"
    /\ \E my_address \in Callers, committee_id \in CommitteeIds,
          keys_file \in KeysFiles, old_share \in OldShareArgs, engine_ok \in BOOLEAN :
        LET res == CreateMessageResult(my_address, committee_id, keys_file, old_share, engine_ok)
            committee == fetch_committee_data(committee_id)
            members_info == unwrap(get_members_info(committee))
            my_party_id == members_info[my_address].party_id
            rot == unwrap(RotationParams(committee, my_address, old_share))
            creates == res = "ok" /\ CreatesMessage(rot.old_threshold, old_share)
            my_message == IF creates THEN Some([sender |-> my_party_id]) ELSE None
            signed_msg == IF creates
                          THEN Some(sign_message(unwrap(my_message),
                                                 unwrap(keys_file).signing_sk))
                          ELSE None
            party_args == IF res \in {"EngineFailure", "ok"}
                              /\ CreatesMessage(rot.old_threshold, old_share)
                          THEN Some(NewAdvancedArgsOfCreate(committee, committee_id,
                                        members_info, old_share, rot.old_threshold))
                          ELSE None
        IN  /\ err' = res
            /\ pc' = IF res = "ok" THEN "created" ELSE "create_failed"
            /\ args' = Some([my_address |-> my_address, committee_id |-> committee_id,
                             keys_file |-> keys_file, old_share |-> old_share])
            /\ log' = CreateMessageLog(res, committee, party_args, signed_msg)
            /\ diskAtStart' = disk
            /\ disk' = PersistedByCreate(res,
                                          NewDkgState(committee, my_party_id, members_info,
                                                      rot, old_share, my_message),
                                          disk)
    /\ UNCHANGED <<state, messages, idx, ledger, result, files>>

\* ---------------------------------------------------------- process-all
\* Party ids a message file can carry in its sender field.
SenderIds == {0, 1, 2}

\* The address registered at a party id in the committees of the ledger.
PartyAddr(party_id) == <<"a1", "a2", "a3">>[party_id + 1]

\* The message of party id s, signed by that party.
HonestMessage(s) == sign_message([sender |-> s], KeysOf(PartyAddr(s)).signing_sk)

\* A message correctly signed by another party but carrying s in its sender
\* field.
ForgedMessage(s) == sign_message([sender |-> s], KeysOf(PartyAddr((s + 1) % 3)).signing_sk)

\* The message of party id s whose bytes or signature were altered after
\* signing.
AlteredMessage(s) ==
    [message |-> [sender |-> s],
     signature |-> sign(KeysOf(PartyAddr(s)).signing_sk, AlteredBytes)]

\* The SignedMessages a message file can decode to.
SignedMessages ==
    UNION {{HonestMessage(s), ForgedMessage(s), AlteredMessage(s)} : s \in SenderIds}

RECURSIVE SeqsUpTo(_, _)
\* The sequences over S of length at most n.
SeqsUpTo(S, n) ==
    IF n = 0 THEN {<<>>}
    ELSE LET shorter == SeqsUpTo(S, n - 1)
         IN  shorter \cup {Append(q, x) : q \in shorter, x \in S}

\* The listings fs::read_dir can give, in enumeration order.
Directories == SeqsUpTo(SignedMessages, MaxMsgs)

\* PersistedAfter without the save before the dispute return.
PersistedAfter_NeverSaves(site, st, old_disk) == old_disk

\* PersistedAfter with a save before the return on a failed completion too.
PersistedAfter_SavesOnFailure(site, st, old_disk) ==
    IF site \in {"MergeComplaint", "CompleteFailure"} THEN save(unwrap(st)) ELSE old_disk

\* state.json when the command returns at the given site ("ok": the end of
\* the command) with st in memory: the command saves at one site only.
PersistedAfter(site, st, old_disk) ==
    IF site = "MergeComplaint" THEN save(unwrap(st)) ELSE old_disk

\* The command returns an error at the given site with st in memory.
Fail(site, st) ==
    /\ pc' = "failed"
    /\ err' = site
    /\ state' = st
    /\ disk' = PersistedAfter(site, st, disk)

\* What the invocation finds when it loads the keys file and reads the
\* messages directory: a missing keys file, an unreadable directory, a file
\* that does not parse, or a listing.
LoadInputs ==
    {[status |-> st, files |-> <<>>] : st \in {"no_keys", "unreadable", "malformed"}}
        \cup {[status |-> "ok", files |-> d] : d \in Directories}

\* Commands::ProcessAll, from DkgState::load to the end of the directory read.
PA_Load ==
    /\ pc = "idle"
    /\ UNCHANGED <<ledger, args, result, files>>
    /\ is_some(disk) => Len(unwrap(disk).processed_messages) <= MaxResumed
    /\ diskAtStart' = disk
    /\ log' = <<Event("load", 0, None)>>
    /\ idx' = 1
    /\ \E input \in LoadInputs :
        IF is_none(disk) THEN Fail("StateLoad", None) /\ messages' = <<>>
        ELSE IF input.status = "no_keys" THEN Fail("KeysLoad", disk) /\ messages' = <<>>
        ELSE IF input.status = "unreadable" THEN Fail("ReadDir", disk) /\ messages' = <<>>
        ELSE IF input.status = "malformed" THEN Fail("MessageParse", disk) /\ messages' = <<>>
        ELSE IF input.files = <<>> THEN Fail("NoFiles", disk) /\ messages' = <<>>
        ELSE /\ messages' = input.files
             /\ state' = disk
             /\ pc' = "quorum"
             /\ err' = "none"
             /\ UNCHANGED disk

\* QuorumMet with the fresh check accepting any count of at least N.
QuorumMet_FreshAtLeast(config, n) ==
    IF is_some(config.old_threshold)
    THEN ~(n < unwrap(config.old_threshold))
    ELSE ~(n < num_nodes(config.nodes))

\* QuorumMet with the rotation check off by one.
QuorumMet_RotationOffByOne(config, n) ==
    IF is_some(config.old_threshold)
    THEN ~(n <= unwrap(config.old_threshold))
    ELSE ~(n # num_nodes(config.nodes))

\* QuorumMet with no check at all.
QuorumMet_Skipped(config, n) == TRUE

\* The quorum check of Commands::ProcessAll: TRUE when it lets the command
\* go on with n messages.
QuorumMet(config, n) ==
    IF is_some(config.old_threshold)
    THEN ~(n < unwrap(config.old_threshold))
    ELSE ~(n # num_nodes(config.nodes))

PA_Quorum ==
    /\ pc = "quorum"
    /\ UNCHANGED <<ledger, args, result, files>>
    /\ log' = Append(log, Event("quorum", 0, Some(Len(messages))))
    /\ IF QuorumMet(unwrap(state).config, Len(messages))
       THEN pc' = "new_party" /\ UNCHANGED <<err, state, disk>>
       ELSE IF is_some(unwrap(state).config.old_threshold)
            THEN Fail("InsufficientRotation", state)
            ELSE Fail("InsufficientFresh", state)
    /\ UNCHANGED <<messages, idx, diskAtStart>>

\* The party built without the old share and the old threshold.
NewAdvancedArgsOfProcessAll_Fresh(config) ==
    [nodes |-> config.nodes,
     threshold |-> config.threshold,
     random_oracle |-> RandomOracle(config.committee_id),
     old_share |-> None,
     old_threshold |-> None]

\* What Commands::ProcessAll passes to Party::new_advanced besides the
\* encryption secret of the keys file and the random number generator.
NewAdvancedArgsOfProcessAll(config) ==
    [nodes |-> config.nodes,
     threshold |-> config.threshold,
     random_oracle |-> RandomOracle(config.committee_id),
     old_share |-> config.my_old_share,
     old_threshold |-> config.old_threshold]

\* Party::new_advanced with the persisted parameters.
PA_NewParty ==
    /\ pc = "new_party"
    /\ UNCHANGED <<ledger, args, result, files>>
    /\ log' = Append(log, Event("new_party", 0,
                    Some(NewAdvancedArgsOfProcessAll(unwrap(state).config))))
    /\ \E engine_ok \in BOOLEAN :
        IF engine_ok THEN pc' = "loop" /\ UNCHANGED <<err, state, disk>>
        ELSE Fail("PartyNew", state)
    /\ UNCHANGED <<messages, idx, diskAtStart>>

\* The signature check at the head of the per-message loop.
PA_Verify ==
    /\ pc = "loop"
    /\ UNCHANGED <<ledger, args, result, files>>
    /\ idx <= Len(messages)
    /\ LET signed_msg == messages[idx]
           sender_party_id == signed_msg.message.sender
           signing_pks == unwrap(state).config.signing_pks
       IN  IF sender_party_id \notin DOMAIN signing_pks
           THEN Fail("UnknownSender", state) /\ UNCHANGED log
           ELSE /\ log' = Append(log, Event("verify", idx, Some(signing_pks[sender_party_id])))
                /\ IF verify_signature(signed_msg, signing_pks[sender_party_id])
                   THEN pc' = "route" /\ UNCHANGED <<err, state, disk>>
                   ELSE Fail("SignatureInvalid", state)
    /\ UNCHANGED <<messages, idx, diskAtStart>>

\* The return site at which the lookup of the expected old partial public key
\* fails, "ok" when it succeeds or the DKG is fresh.
RouteResult(config, sender_party_id) ==
    IF is_none(config.old_threshold) THEN "ok"
    ELSE IF is_none(config.new_to_old_mapping) THEN "MissingMapping"
    ELSE IF sender_party_id \notin DOMAIN unwrap(config.new_to_old_mapping) THEN "NotInMapping"
    ELSE IF is_none(config.expected_old_pks) THEN "MissingOldPks"
    ELSE IF unwrap(config.new_to_old_mapping)[sender_party_id]
                \notin DOMAIN unwrap(config.expected_old_pks) THEN "NoExpectedPk"
    ELSE "ok"

\* Every message goes through the plain entry point.
ProcessCall_PlainAlways(config, sender_party_id) ==
    [entry |-> "process_message", expected_pk |-> None]

\* The engine call of the loop body: entry point and expected old partial
\* public key.
ProcessCall(config, sender_party_id) ==
    IF is_some(config.old_threshold)
    THEN [entry |-> "process_message_and_check_pk",
          expected_pk |-> Some(unwrap(config.expected_old_pks)[
                                  unwrap(config.new_to_old_mapping)[sender_party_id]])]
    ELSE [entry |-> "process_message", expected_pk |-> None]

\* What a processing entry point can return: a ProcessedMessage without or
\* with a complaint, or Err.
ProcessOutcomes == {"ok", "complaint", "err"}

\* AbortOnComplaint that never returns.
AbortOnComplaint_Never(processed) == FALSE

\* The complaint check of the loop body: TRUE when the command returns at
\* once.
AbortOnComplaint(processed) == is_some(processed.complaint)

\* The loop takes up the same message again.
NextIndex_Retries(i) == i

\* The step of the iterator of the per-message loop: each message of the
\* Vec is taken once, in order.
NextIndex(i) == i + 1

\* The rest of the loop body: routing, the engine call, the complaint check
\* and the push.
PA_Process ==
    /\ pc = "route"
    /\ UNCHANGED <<ledger, args, result, files>>
    /\ LET signed_msg == messages[idx]
           sender_party_id == signed_msg.message.sender
           config == unwrap(state).config
           route == RouteResult(config, sender_party_id)
       IN  IF route # "ok"
           THEN Fail(route, state) /\ UNCHANGED <<log, idx>>
           ELSE \E outcome \in ProcessOutcomes :
                LET processed ==
                        [message |-> signed_msg.message,
                         complaint |-> IF outcome = "complaint"
                                       THEN Some([accuser |-> config.my_party_id])
                                       ELSE None]
                IN  /\ log' = Append(log, Event("process", idx,
                                Some([call |-> ProcessCall(config, sender_party_id),
                                      returned |-> outcome])))
                    /\ IF outcome = "err"
                       THEN /\ Fail(IF is_some(config.old_threshold)
                                    THEN "RotationVerification" ELSE "ProcessFailure", state)
                            /\ UNCHANGED idx
                       ELSE IF AbortOnComplaint(processed)
                       THEN Fail("Complaint", state) /\ UNCHANGED idx
                       ELSE /\ state' = Some([unwrap(state) EXCEPT !.processed_messages =
                                                  Append(@, processed)])
                            /\ idx' = NextIndex(idx)
                            /\ pc' = "loop"
                            /\ UNCHANGED <<err, disk>>
    /\ UNCHANGED <<messages, diskAtStart>>

\* What merge can return: a confirmation without or with complaints, or Err.
MergeOutcomes == {"ok", "complaints", "err"}

\* The command goes on to completion whatever the confirmation holds.
ProceedsToComplete_Always(confirmation) == TRUE

\* The check of the confirmation: TRUE when the command goes on to
\* completion.
ProceedsToComplete(confirmation) == confirmation.complaints = <<>>

\* party.merge and the check of the confirmation's complaints.
PA_Merge ==
    /\ pc = "loop"
    /\ UNCHANGED <<ledger, args, result, files>>
    /\ idx > Len(messages)
    /\ \E outcome \in MergeOutcomes :
        LET st == unwrap(state)
            confirmation == [sender |-> st.config.my_party_id,
                             complaints |-> IF outcome = "complaints"
                                            THEN <<[accuser |-> st.config.my_party_id]>>
                                            ELSE <<>>]
            used_msgs == st.processed_messages
            st2 == [st EXCEPT !.confirmation = Some(<<confirmation, used_msgs>>)]
        IN  /\ log' = Append(log, Event("merge", 0,
                        Some([processed |-> st.processed_messages, returned |-> outcome])))
            /\ IF outcome = "err"
               THEN Fail("MergeFailure", state)
               ELSE IF ~ProceedsToComplete(confirmation)
               THEN Fail("MergeComplaint", Some(st2))
               ELSE /\ state' = Some(st2)
                    /\ pc' = "complete"
                    /\ UNCHANGED <<disk, err>>
    /\ UNCHANGED <<messages, idx, diskAtStart>>

\* Completion goes through the plain entry point whatever the config holds.
CompleteCall_PlainAlways(config) ==
    [entry |-> "complete_optimistic", sender_to_old_map |-> None]

\* The completion entry point and what it is fed.
CompleteCall(config) ==
    IF is_some(config.old_threshold)
    THEN [entry |-> "complete_optimistic_key_rotation",
          sender_to_old_map |-> config.new_to_old_mapping]
    ELSE [entry |-> "complete_optimistic", sender_to_old_map |-> None]

\* Poly::c0: the constant coefficient of the public polynomial.
c0(vss_pk) == [c0_of |-> vss_pk]

\* Poly::eval: the public polynomial evaluated at a share index.
eval(vss_pk, share_index) == [eval_of |-> vss_pk, at |-> share_index]

\* The share index taken to be the party id itself.
share_index_ZeroBased(party_id) == party_id

\* The share index of a party in the report: party ids count from 0, share
\* indices from 1.
share_index(party_id) == party_id + 1

\* The public part of the report printed after completion: the key server
\* public key and one partial public key per node of the config.
Report(config, output) ==
    [key_server_pk |-> c0(output.vss_pk),
     partial_pks |-> [party_id \in 0..(num_nodes(config.nodes) - 1) |->
                         eval(output.vss_pk, share_index(party_id))]]

\* Completion and the report.
PA_Complete ==
    /\ pc = "complete"
    /\ UNCHANGED <<ledger, args, result, files>>
    /\ LET st == unwrap(state)
           config == st.config
       IN  IF is_some(config.old_threshold) /\ is_none(config.new_to_old_mapping)
           THEN Fail("MissingMapping", state) /\ UNCHANGED log
           ELSE \E engine_ok \in BOOLEAN :
                LET output == [vss_pk |-> [committee |-> config.committee_id],
                               nodes |-> config.nodes]
                    st2 == Some([st EXCEPT !.output = Some(output)])
                    completed == Event("complete", 0,
                                       Some([call |-> CompleteCall(config),
                                             returned |-> engine_ok]))
                IN  IF ~engine_ok
                    THEN log' = Append(log, completed) /\ Fail("CompleteFailure", state)
                    ELSE    /\ log' = log \o <<completed,
                                                Event("report", 0,
                                                      Some(Report(config, output)))>>
                            /\ state' = st2
                            /\ disk' = PersistedAfter("ok", st2, disk)
                            /\ pc' = "done"
                            /\ UNCHANGED err
    /\ UNCHANGED <<messages, idx, diskAtStart>>

\* Neither the keys file nor the message artifact exists.
NoFiles == [keys_file |-> None, message_file |-> None]

\* The process of a command exits; the next command starts from the files
\* alone.
Exit ==
    /\ pc \in {"done", "failed", "created", "create_failed",
              "keys_done", "keys_loaded", "message_written", "message_read"}
    /\ pc' = "idle"
    /\ state' = None
    /\ messages' = <<>>
    /\ idx' = 1
    /\ log' = <<>>
    /\ diskAtStart' = None
    /\ err' = "none"
    /\ args' = None
    /\ result' = None
    /\ UNCHANGED <<disk, ledger, files>>

Init ==
    /\ disk = None
    /\ pc = "idle"
    /\ state = None
    /\ messages = <<>>
    /\ idx = 1
    /\ err = "none"
    /\ log = <<>>
    /\ diskAtStart = None
    /\ ledger = Ledger
    /\ args = None
    /\ result = None
    /\ files = NoFiles

\* The committee objects after member a2 of cFresh has replaced its
\* registration by the public keys held in the keys file of a4, and the
\* rotation committee has completed its DKG.
LedgerLater ==
    [Ledger EXCEPT !["cFresh"].state.members_info["a2"] = MemberInfo("a4"),
                   !["cRot"].state.kind = "PostDKG"]

\* Other participants' transactions change the ledger between two commands
\* of a member of cFresh, after its create-message.
LedgerChange ==
    /\ pc = "idle"
    /\ is_some(disk)
    /\ unwrap(disk).config.committee_id = "cFresh"
    /\ ledger = Ledger
    /\ ledger' = LedgerLater
    /\ UNCHANGED <<disk, pc, state, messages, idx, err, log, diskAtStart, args, result,
                   files>>

Next ==
    \/ CreateMessage
    \/ PA_Load
    \/ PA_Quorum
    \/ PA_NewParty
    \/ PA_Verify
    \/ PA_Process
    \/ PA_Merge
    \/ PA_Complete
    \/ Exit

Spec == Init /\ [][Next]_vars

\* The tool run by one participant while the ledger changes under it.
NextLedger ==
    \/ CreateMessage
    \/ PA_Load
    \/ PA_Quorum
    \/ PA_NewParty
    \/ PA_Verify
    \/ PA_Process
    \/ PA_Merge
    \/ PA_Complete
    \/ Exit
    \/ LedgerChange

SpecLedger == Init /\ [][NextLedger]_vars

\* ---------------------------------------- the committee helpers on their own
\* Addresses of the committees the helpers are applied to.
MemberAddrs == {"a1", "a2", "a3"}

\* Member lists, repeated addresses included.
MemberLists == SeqsUpTo(MemberAddrs, MaxMembers)

\* The CommitteeState values: Init and PostDKG with any registration table,
\* and Finalized.
CommitteeStates ==
    {[kind |-> k, members_info |-> Registered(S)] :
        k \in {"Init", "PostDKG"}, S \in SUBSET MemberAddrs}
    \cup {[kind |-> "Finalized"]}

\* A SealCommittee with the given member list and state.
Committee(id, members, st) ==
    [id |-> id, threshold |-> 2, members |-> members, state |-> st,
     old_committee_id |-> None]

\* The arguments the helpers are applied to: a committee in any state for
\* get_members_info, a pair of member lists for build_new_to_old_map.
CommitteeInputs ==
    {[committee |-> Committee("c", m, st),
      old_committee |-> Committee("o", <<>>, [kind |-> "Finalized"])] :
        m \in MemberLists, st \in CommitteeStates}
    \cup {[committee |-> Committee("c", m, [kind |-> "Finalized"]),
            old_committee |-> Committee("o", o, [kind |-> "Finalized"])] :
        m \in MemberLists, o \in MemberLists}

InitCommittee ==
    /\ disk = None
    /\ pc = "idle"
    /\ state = None
    /\ messages = <<>>
    /\ idx = 1
    /\ err = "none"
    /\ log = <<>>
    /\ diskAtStart = None
    /\ ledger = Ledger
    /\ args \in {Some(x) : x \in CommitteeInputs}
    /\ result = None
    /\ files = NoFiles

\* A call of SealCommittee::get_members_info.
ApplyGetMembersInfo ==
    /\ pc = "idle"
    /\ pc' = "got_members_info"
    /\ result' = get_members_info(unwrap(args).committee)
    /\ UNCHANGED <<disk, state, messages, idx, err, log, diskAtStart, ledger, args, files>>

\* A call of build_new_to_old_map.
ApplyBuildNewToOldMap ==
    /\ pc = "idle"
    /\ pc' = "built_map"
    /\ result' = Some(build_new_to_old_map(unwrap(args).committee,
                                           unwrap(args).old_committee))
    /\ UNCHANGED <<disk, state, messages, idx, err, log, diskAtStart, ledger, args, files>>

NextCommittee ==
    \/ ApplyGetMembersInfo
    \/ ApplyBuildNewToOldMap

SpecCommittee == InitCommittee /\ [][NextCommittee]_vars

\* ------------------------------------------------- files and encodings
\* The byte the random generator gave for the keys of an address.
Seed(a) == [a1 |-> 7, a2 |-> 18, a3 |-> 129, a4 |-> 240][a]

\* bcs::to_bytes of a key: a secret key is its scalar, a public key the
\* point of its secret key.
bcs_to_bytes(key) ==
    IF "enc" \in DOMAIN key THEN <<Seed(key.enc)>>
    ELSE IF "sig" \in DOMAIN key THEN <<Seed(key.sig)>>
    ELSE IF "enc" \in DOMAIN key.pub_of THEN <<Seed(key.pub_of.enc), 255 - Seed(key.pub_of.enc)>>
    ELSE <<Seed(key.pub_of.sig), 255 - Seed(key.pub_of.sig)>>

\* The keys of each field type of KeysFile.
KeysOfType(field) == {KeysOf(a)[field] : a \in Addrs}

\* bcs::from_bytes for the type of a KeysFile field: the key with this
\* canonical encoding, Err (None) when there is none.
bcs_from_bytes(field, bytes) ==
    IF \E key \in KeysOfType(field) : bcs_to_bytes(key) = bytes
    THEN Some(CHOOSE key \in KeysOfType(field) : bcs_to_bytes(key) = bytes)
    ELSE None

HexChars == <<"0", "1", "2", "3", "4", "5", "6", "7", "8", "9", "a", "b", "c", "d", "e", "f">>

\* A byte below 16 written as one digit.
hex_byte_Unpadded(byte) ==
    IF byte < 16 THEN <<HexChars[byte + 1]>>
    ELSE <<HexChars[(byte \div 16) + 1], HexChars[(byte % 16) + 1]>>

\* The two lower-case hex digits of a byte.
hex_byte(byte) == <<HexChars[(byte \div 16) + 1], HexChars[(byte % 16) + 1]>>

RECURSIVE hex_digits(_)
hex_digits(bytes) ==
    IF bytes = <<>> THEN <<>>
    ELSE hex_byte(Head(bytes)) \o hex_digits(Tail(bytes))

\* Hex::encode_with_format: the digits with the 0x prefix.
encode_with_format(bytes) == <<"0", "x">> \o hex_digits(bytes)

hex_value(ch) == CHOOSE n \in 0..15 : HexChars[n + 1] = ch

RECURSIVE hex_bytes(_)
hex_bytes(digits) ==
    IF digits = <<>> THEN <<>>
    ELSE <<hex_value(digits[1]) * 16 + hex_value(digits[2])>>
             \o hex_bytes(SubSeq(digits, 3, Len(digits)))

\* Hex::decode: an optional 0x prefix, then an even number of hex digits;
\* Err (None) otherwise.
hex_decode(str) ==
    LET digits == IF Len(str) >= 2 /\ SubSeq(str, 1, 2) = <<"0", "x">>
                  THEN SubSeq(str, 3, Len(str)) ELSE str
    IN  IF Len(digits) % 2 # 0
           \/ \E i \in 1..Len(digits) : \A n \in 1..16 : HexChars[n] # digits[i]
        THEN None
        ELSE Some(hex_bytes(digits))

KeysFileFields == {"enc_sk", "enc_pk", "signing_sk", "signing_pk"}

\* serde_json::to_string_pretty of a KeysFile: each field the hex string of
\* its BCS bytes.
keys_to_json(keys) == [f \in KeysFileFields |-> encode_with_format(bcs_to_bytes(keys[f]))]

\* serde_json::from_str::<KeysFile>: Err (None) when a field does not decode.
keys_from_json(json) ==
    LET bytes == [f \in KeysFileFields |-> hex_decode(json[f])]
        value == [f \in KeysFileFields |->
                     IF is_some(bytes[f]) THEN bcs_from_bytes(f, unwrap(bytes[f])) ELSE None]
    IN  IF \E f \in KeysFileFields : is_none(value[f]) THEN None
        ELSE Some([f \in KeysFileFields |-> unwrap(value[f])])

\* bcs::to_bytes of a SignedMessage: the sender as little-endian u16, then
\* the signature.
signed_to_bytes(signed_msg) ==
    <<signed_msg.message.sender % 256, signed_msg.message.sender \div 256,
      Seed(signed_msg.signature.signer.sig)>>
        \o (IF signed_msg.signature.bytes = AlteredBytes THEN <<0, 0>>
            ELSE <<1, signed_msg.signature.bytes[2]>>)

\* bcs::from_bytes::<SignedMessage>.
signed_from_bytes(bytes) ==
    IF Len(bytes) # 5 THEN None
    ELSE IF ~(\E a \in Addrs : Seed(a) = bytes[3]) \/ bytes[4] \notin {0, 1} THEN None
    ELSE Some([message |-> [sender |-> bytes[1] + 256 * bytes[2]],
               signature |-> [signer |-> [sig |-> CHOOSE a \in Addrs : Seed(a) = bytes[3]],
                              bytes |-> IF bytes[4] = 1 THEN <<"msg", bytes[5]>>
                                        ELSE AlteredBytes]])

\* The padding character of Base64, after the 64 characters of the alphabet
\* (each written as its index).
Pad == 64

RECURSIVE base64_encode(_)
\* Base64::encode: four characters for every three bytes, padded.
base64_encode(bytes) ==
    IF bytes = <<>> THEN <<>>
    ELSE IF Len(bytes) = 1
    THEN <<bytes[1] \div 4, (bytes[1] % 4) * 16, Pad, Pad>>
    ELSE IF Len(bytes) = 2
    THEN <<bytes[1] \div 4, (bytes[1] % 4) * 16 + bytes[2] \div 16,
           (bytes[2] % 16) * 4, Pad>>
    ELSE <<bytes[1] \div 4, (bytes[1] % 4) * 16 + bytes[2] \div 16,
           (bytes[2] % 16) * 4 + bytes[3] \div 64, bytes[3] % 64>>
             \o base64_encode(SubSeq(bytes, 4, Len(bytes)))

RECURSIVE base64_bytes(_)
base64_bytes(chars) ==
    IF chars = <<>> THEN <<>>
    ELSE (IF chars[3] = Pad THEN <<chars[1] * 4 + chars[2] \div 16>>
          ELSE IF chars[4] = Pad
          THEN <<chars[1] * 4 + chars[2] \div 16, (chars[2] % 16) * 16 + chars[3] \div 4>>
          ELSE <<chars[1] * 4 + chars[2] \div 16, (chars[2] % 16) * 16 + chars[3] \div 4,
                 (chars[3] % 4) * 64 + chars[4]>>)
             \o base64_bytes(SubSeq(chars, 5, Len(chars)))

\* Base64::decode: Err (None) unless the length is a multiple of four and
\* padding stands only at the end.
base64_decode(chars) ==
    IF Len(chars) % 4 # 0
       \/ \E i \in 1..Len(chars) :
              chars[i] = Pad /\ (i < Len(chars) - 1 \/ (i = Len(chars) - 1 /\ chars[Len(chars)] # Pad))
    THEN None
    ELSE Some(base64_bytes(chars))

\* The message artifact of Commands::CreateMessage: a JSON object with the
\* Base64 of the BCS bytes under "message".
message_to_json(signed_msg) == [message |-> base64_encode(signed_to_bytes(signed_msg))]

\* The parse of one message file in Commands::ProcessAll.
message_from_json(json) ==
    IF "message" \notin DOMAIN json THEN None
    ELSE LET bytes == base64_decode(json.message)
         IN  IF is_none(bytes) THEN None ELSE signed_from_bytes(unwrap(bytes))

\* File modes as the three octal digits for owner, group and other.
OwnerOnly == <<6, 0, 0>>

\* The umask of the process: 022, 002 or 077.
Umasks == {<<0, 2, 2>>, <<0, 0, 2>>, <<0, 7, 7>>}

\* The bits of octal digit d that are not in digit m.
AndNot(d, m) ==
    4 * (((d \div 4) % 2) * (1 - ((m \div 4) % 2)))
        + 2 * (((d \div 2) % 2) * (1 - ((m \div 2) % 2)))
        + ((d % 2) * (1 - (m % 2)))

\* The mode fs::write gives a file it creates: 0666 without the umask bits.
CreateMode(umask) == [c \in 1..3 |-> AndNot(6, umask[c])]

\* fs::write: the file with the new content; an existing file keeps its
\* mode, a new one gets the creation mode.
fs_write(file, content, umask) ==
    Some([content |-> content,
          mode |-> IF is_some(file) THEN unwrap(file).mode ELSE CreateMode(umask)])

\* Commands::GenerateKeys up to the fs::write of write_secret_file: the keys
\* are drawn and their JSON is in the file.
GK_Write ==
    /\ pc = "idle"
    /\ \E a \in Addrs, b \in Addrs, umask \in Umasks :
        LET created_keys_file == KeysFile(a, b)
        IN  /\ args' = Some([created_keys_file |-> created_keys_file])
            /\ files' = [files EXCEPT !.keys_file =
                            fs_write(@, keys_to_json(created_keys_file), umask)]
    /\ pc' = "keys_written"
    /\ UNCHANGED <<disk, state, messages, idx, err, log, diskAtStart, ledger, result>>

\* The rest of write_secret_file on Unix: the mode is set to 0600.
GK_SetPermissions ==
    /\ pc = "keys_written"
    /\ files' = [files EXCEPT !.keys_file = Some([unwrap(@) EXCEPT !.mode = OwnerOnly])]
    /\ pc' = "keys_done"
    /\ UNCHANGED <<disk, state, messages, idx, err, log, diskAtStart, ledger, args, result>>

\* KeysFile::load of the file just written.
KeysFileLoad ==
    /\ pc = "keys_done"
    /\ result' = keys_from_json(unwrap(files.keys_file).content)
    /\ pc' = "keys_loaded"
    /\ UNCHANGED <<disk, state, messages, idx, err, log, diskAtStart, ledger, args, files>>

\* The write of the message artifact in Commands::CreateMessage.
WriteMessageFile ==
    /\ pc = "idle"
    /\ \E signed_message \in SignedMessages, umask \in Umasks :
        /\ args' = Some([signed_message |-> signed_message])
        /\ files' = [files EXCEPT !.message_file =
                        fs_write(@, message_to_json(signed_message), umask)]
    /\ pc' = "message_written"
    /\ UNCHANGED <<disk, state, messages, idx, err, log, diskAtStart, ledger, result>>

\* The read of one message file in Commands::ProcessAll.
ReadMessageFile ==
    /\ pc = "message_written"
    /\ result' = message_from_json(unwrap(files.message_file).content)
    /\ pc' = "message_read"
    /\ UNCHANGED <<disk, state, messages, idx, err, log, diskAtStart, ledger, args, files>>

NextFiles ==
    \/ GK_Write
    \/ GK_SetPermissions
    \/ KeysFileLoad
    \/ WriteMessageFile
    \/ ReadMessageFile
    \/ Exit

SpecFiles == Init /\ [][NextFiles]_vars

\* --------------------------------------- signing and verifying on their own
\* A message, the secret key that signs it and the public key it is checked
\* against.
SignatureInputs ==
    {[message |-> [sender |-> sender], sk |-> KeysOf(a).signing_sk, pk |-> KeysOf(b).signing_pk] :
        sender \in SenderIds, a \in Addrs, b \in Addrs}

InitSignature ==
    /\ disk = None
    /\ pc = "idle"
    /\ state = None
    /\ messages = <<>>
    /\ idx = 1
    /\ err = "none"
    /\ log = <<>>
    /\ diskAtStart = None
    /\ ledger = Ledger
    /\ args \in {Some(x) : x \in SignatureInputs}
    /\ result = None
    /\ files = NoFiles

\* A call of sign_message.
ApplySignMessage ==
    /\ pc = "idle"
    /\ pc' = "signed"
    /\ result' = Some([signed_msg |-> sign_message(unwrap(args).message, unwrap(args).sk)])
    /\ UNCHANGED <<disk, state, messages, idx, err, log, diskAtStart, ledger, args, files>>

\* A call of verify_signature on the signed message: Ok as TRUE.
ApplyVerifySignature ==
    /\ pc = "signed"
    /\ pc' = "verified"
    /\ result' = Some([signed_msg |-> unwrap(result).signed_msg,
                       ok |-> verify_signature(unwrap(result).signed_msg, unwrap(args).pk)])
    /\ UNCHANGED <<disk, state, messages, idx, err, log, diskAtStart, ledger, args, files>>

NextSignature ==
    \/ ApplySignMessage
    \/ ApplyVerifySignature

SpecSignature == InitSignature /\ [][NextSignature]_vars

\* ------------------------------------------ process-all as one function
\* What the engine does in one invocation, as a function of what it is given:
\* Party::new_advanced, the processing of each sender's message, merge and
\* completion.
EngineBehaviours ==
    {[party_ok |-> ends.party_ok, process |-> process, merge |-> ends.merge,
      complete_ok |-> ends.complete_ok] :
        ends \in {[party_ok |-> TRUE, merge |-> "ok", complete_ok |-> TRUE],
                  [party_ok |-> TRUE, merge |-> "ok", complete_ok |-> FALSE],
                  [party_ok |-> TRUE, merge |-> "complaints", complete_ok |-> TRUE],
                  [party_ok |-> TRUE, merge |-> "err", complete_ok |-> TRUE],
                  [party_ok |-> FALSE, merge |-> "ok", complete_ok |-> TRUE]},
        process \in {[s \in SenderIds |-> "ok"]}
                        \cup {[s \in SenderIds |-> IF s = bad THEN outcome ELSE "ok"] :
                                 bad \in SenderIds, outcome \in {"complaint", "err"}}}

\* The loop body that skips the checks of a message whose sender already has
\* a processed message.
MessageSite_SkipsSeenSender(st, signed_msg, engine) ==
    LET sender_party_id == signed_msg.message.sender
        config == st.config
        outcome == engine.process[sender_party_id]
    IN  IF \E k \in 1..Len(st.processed_messages) :
               st.processed_messages[k].message.sender = sender_party_id THEN "ok"
        ELSE IF sender_party_id \notin DOMAIN config.signing_pks THEN "UnknownSender"
        ELSE IF ~verify_signature(signed_msg, config.signing_pks[sender_party_id])
             THEN "SignatureInvalid"
        ELSE IF RouteResult(config, sender_party_id) # "ok"
             THEN RouteResult(config, sender_party_id)
        ELSE IF outcome = "err"
             THEN IF is_some(config.old_threshold) THEN "RotationVerification"
                  ELSE "ProcessFailure"
        ELSE IF outcome = "complaint" THEN "Complaint"
        ELSE "ok"

\* The return site of one pass of the loop body of Commands::ProcessAll on
\* signed_msg, "ok" when the message is pushed.
MessageSite(st, signed_msg, engine) ==
    LET sender_party_id == signed_msg.message.sender
        config == st.config
        outcome == engine.process[sender_party_id]
    IN  IF sender_party_id \notin DOMAIN config.signing_pks THEN "UnknownSender"
        ELSE IF ~verify_signature(signed_msg, config.signing_pks[sender_party_id])
             THEN "SignatureInvalid"
        ELSE IF RouteResult(config, sender_party_id) # "ok"
             THEN RouteResult(config, sender_party_id)
        ELSE IF outcome = "err"
             THEN IF is_some(config.old_threshold) THEN "RotationVerification"
                  ELSE "ProcessFailure"
        ELSE IF AbortOnComplaint([message |-> signed_msg.message,
                                  complaint |-> IF outcome = "complaint"
                                                THEN Some([accuser |-> config.my_party_id])
                                                ELSE None])
             THEN "Complaint"
        ELSE "ok"

RECURSIVE RunLoop(_, _, _, _)
\* The per-message loop from message i on: the site of the first return and
\* the state in memory there.
RunLoop(st, listing, i, engine) ==
    IF i > Len(listing) THEN [site |-> "ok", st |-> st]
    ELSE LET site == MessageSite(st, listing[i], engine)
         IN  IF site # "ok" THEN [site |-> site, st |-> st]
             ELSE RunLoop([st EXCEPT !.processed_messages =
                               Append(@, [message |-> listing[i].message,
                                          complaint |-> None])],
                          listing, i + 1, engine)

\* Commands::ProcessAll from a loaded state and a readable directory: the
\* return site ("ok": the report) and state.json afterwards.
RunProcessAll(loaded, listing, engine) ==
    LET looped == RunLoop(loaded, listing, 1, engine)
        confirmation == [sender |-> loaded.config.my_party_id,
                         complaints |-> IF engine.merge = "complaints"
                                        THEN <<[accuser |-> loaded.config.my_party_id]>>
                                        ELSE <<>>]
        merged == [looped.st EXCEPT !.confirmation =
                       Some(<<confirmation, looped.st.processed_messages>>)]
        site == IF listing = <<>> THEN "NoFiles"
                ELSE IF ~QuorumMet(loaded.config, Len(listing))
                     THEN IF is_some(loaded.config.old_threshold)
                          THEN "InsufficientRotation" ELSE "InsufficientFresh"
                ELSE IF ~engine.party_ok THEN "PartyNew"
                ELSE IF looped.site # "ok" THEN looped.site
                ELSE IF engine.merge = "err" THEN "MergeFailure"
                ELSE IF ~ProceedsToComplete(confirmation) THEN "MergeComplaint"
                ELSE IF ~engine.complete_ok THEN "CompleteFailure"
                ELSE "ok"
        output == [vss_pk |-> [committee |-> loaded.config.committee_id],
                   nodes |-> loaded.config.nodes]
    IN  [site |-> site,
         disk |-> PersistedAfter(site,
                                 IF site = "ok" THEN Some([merged EXCEPT !.output = Some(output)])
                                 ELSE IF site \in {"MergeComplaint", "CompleteFailure"}
                                 THEN Some(merged)
                                 ELSE Some(looped.st),
                                 Some(loaded))]

\* The states create-message leaves for a member of cFresh and for a
\* continuing member of cRot.
CreatedStates ==
    {NewDkgState(Ledger[inp.id], unwrap(get_party_id(Ledger[inp.id], inp.a)),
                 unwrap(get_members_info(Ledger[inp.id])),
                 unwrap(RotationParams(Ledger[inp.id], inp.a, inp.share)),
                 inp.share, Some([sender |-> unwrap(get_party_id(Ledger[inp.id], inp.a))])) :
        inp \in {[id |-> "cFresh", a |-> "a1", share |-> None],
                 [id |-> "cRot", a |-> "a2", share |-> Some(OldShare(0))]}}

\* The same files enumerated in every order.
Reorderings(listing) ==
    {[i \in 1..Len(listing) |-> listing[p[i]]] : p \in Permutations(1..Len(listing))}

InitOrder ==
    /\ disk = None
    /\ pc = "idle"
    /\ state = None
    /\ messages = <<>>
    /\ idx = 1
    /\ err = "none"
    /\ log = <<>>
    /\ diskAtStart = None
    /\ ledger = Ledger
    /\ args \in {Some([loaded |-> st, listing |-> d, engine |-> e]) :
                    st \in CreatedStates, d \in SeqsUpTo(SignedMessages, MaxListed),
                    e \in EngineBehaviours}
    /\ result = None
    /\ files = NoFiles

\* process-all run on the listing and on a reordering of it, from the same
\* state and with the same engine behaviour.
ApplyRunProcessAll ==
    /\ pc = "idle"
    /\ pc' = "ran_twice"
    /\ \E reordered \in Reorderings(unwrap(args).listing) :
        result' = Some([reordered |-> reordered,
                        first |-> RunProcessAll(unwrap(args).loaded, unwrap(args).listing,
                                                unwrap(args).engine),
                        second |-> RunProcessAll(unwrap(args).loaded, reordered,
                                                 unwrap(args).engine)])
    /\ UNCHANGED <<disk, state, messages, idx, err, log, diskAtStart, ledger, args, files>>

NextOrder == ApplyRunProcessAll

SpecOrder == InitOrder /\ [][NextOrder]_vars

\* ------------------------------------- process-all of a three-party rotation
\* The committee objects of a rotation in which every member of the old
\* committee continues: cOld has the three members of cRot.
LedgerRotation == [Ledger EXCEPT !["cOld"].members = <<"a1", "a2", "a3">>]

\* The states create-message leaves for the callers it accepts in the
\* rotation into cRot, each with its own keys file and the old share it was
\* given.
RotationStates ==
    {NewDkgState(ledger["cRot"], unwrap(get_party_id(ledger["cRot"], inp.a)),
                 unwrap(get_members_info(ledger["cRot"])),
                 unwrap(RotationParams(ledger["cRot"], inp.a, inp.share)),
                 inp.share, Some([sender |-> unwrap(get_party_id(ledger["cRot"], inp.a))])) :
        inp \in {x \in [a : Callers, share : OldShareArgs] :
                    CreateMessageResult(x.a, "cRot", Some(KeysFile(x.a, x.a)), x.share, TRUE)
                        = "ok"}}

InitRotation ==
    /\ disk = None
    /\ pc = "idle"
    /\ state = None
    /\ messages = <<>>
    /\ idx = 1
    /\ err = "none"
    /\ log = <<>>
    /\ diskAtStart = None
    /\ ledger = LedgerRotation
    /\ args \in {Some([loaded |-> st, listing |-> d, engine |-> e]) :
                    st \in RotationStates, d \in SeqsUpTo(SignedMessages, MaxListed),
                    e \in EngineBehaviours}
    /\ result = None
    /\ files = NoFiles

\* process-all run once from the state create-message left.
ApplyProcessAllRotation ==
    /\ pc = "idle"
    /\ pc' = "ran"
    /\ result' = Some(RunProcessAll(unwrap(args).loaded, unwrap(args).listing,
                                    unwrap(args).engine))
    /\ UNCHANGED <<disk, state, messages, idx, err, log, diskAtStart, ledger, args, files>>

NextRotation == ApplyProcessAllRotation

SpecRotation == InitRotation /\ [][NextRotation]_vars

\* ------------------------------------------------ MVR name resolution
\* Result<T, InternalError>.
Ok(x) == [tag |-> "Ok", value |-> x]

Err(e) == [tag |-> "Err", value |-> e]

\* Key of the testnet entry in the networks map of an app record.
TESTNET_ID == "4c78adac"

\* KeyServerOptions.network: Custom carries use_default_mainnet_for_mvr.
Networks ==
    {[kind |-> k, use_default_mainnet_for_mvr |-> None] : k \in {"Mainnet", "Testnet", "Devnet"}}
    \cup {[kind |-> "Custom", use_default_mainnet_for_mvr |-> u] :
             u \in {None, Some(TRUE), Some(FALSE)}}

\* The strings passed as mvr_name.
MvrNames == {"@pkg/a", "@pkg/b", "@pkg/a/1", "pkg"}

\* VersionedName::from_str: Err as None; a name without "@" and "/" does not
\* parse, a trailing "/1" is a version.
VersionedName_from_str(mvr_name) ==
    IF mvr_name = "@pkg/a" THEN Some([name |-> "@pkg/a", version |-> None])
    ELSE IF mvr_name = "@pkg/b" THEN Some([name |-> "@pkg/b", version |-> None])
    ELSE IF mvr_name = "@pkg/a/1" THEN Some([name |-> "@pkg/a", version |-> Some(1)])
    ELSE None

\* The AppInfo values of the app_info field of a record.
MainnetAppInfos ==
    {[package_info_id |-> None, package_address |-> None],
     [package_info_id |-> None, package_address |-> Some("0xM")],
     [package_info_id |-> Some("infoM"), package_address |-> Some("0xM")]}

\* The AppInfo values stored under TESTNET_ID; their package_address is not
\* guaranteed to be accurate.
TestnetAppInfos ==
    {[package_info_id |-> x, package_address |-> Some("0xStale")] :
        x \in {None, Some("info1"), Some("info2"), Some("info3"), Some("info4")}}

\* The AppRecord values.
AppRecords ==
    {[app_info |-> ai, networks |-> nw] :
        ai \in {None} \cup {Some(x) : x \in MainnetAppInfos},
        nw \in {<<>>} \cup {[k \in {TESTNET_ID} |-> x] : x \in TestnetAppInfos}}

\* The PackageInfo objects on testnet, by object id: info1 is registered
\* under "@pkg/a", info2 under "@pkg/b", info3 has no 'default' entry; no
\* object has the id info4.
PackageInfos ==
    [info1 |-> [package_address |-> "0xT1", metadata |-> [default |-> "@pkg/a"]],
     info2 |-> [package_address |-> "0xT2", metadata |-> [default |-> "@pkg/b"]],
     info3 |-> [package_address |-> "0xT3", metadata |-> [other |-> "@pkg/a"]]]

\* The registry on mainnet: either empty or holding one record under
\* "@pkg/a".
Registries == {<<>>} \cup {[n \in {"@pkg/a"} |-> rec] : rec \in AppRecords}

\* What one RPC read can give: the object, a failed call, or bytes that do
\* not decode.
RpcOutcomes == {"ok", "unreachable", "undecodable"}

\* resolve_network.
resolve_network(network) ==
    IF network.kind = "Mainnet" THEN Ok("Mainnet")
    ELSE IF network.kind = "Testnet" THEN Ok("Testnet")
    ELSE IF network.kind = "Custom"
         THEN IF network.use_default_mainnet_for_mvr = Some(TRUE) THEN Ok("Mainnet")
              ELSE IF network.use_default_mainnet_for_mvr = Some(FALSE) THEN Ok("Testnet")
              ELSE Ok("Mainnet")
    ELSE Err("Failure")

\* dynamic_field_name: the registry key of an MVR name.
dynamic_field_name(mvr_name) ==
    LET parsed_name == VersionedName_from_str(mvr_name)
    IN  IF is_none(parsed_name) THEN Err("InvalidMVRName")
        ELSE IF is_some(unwrap(parsed_name).version) THEN Err("InvalidMVRName")
        ELSE Ok(unwrap(parsed_name).name)

\* get_object: objects maps the ids of the objects of the network to their
\* decoded values.
get_object(object_id, objects, rpc) ==
    IF rpc = "unreachable" \/ object_id \notin DOMAIN objects THEN Err("Failure")
    ELSE IF rpc = "undecodable" THEN Err("InvalidPackage")
    ELSE Ok(objects[object_id])

\* get_from_mvr_registry: the record of the name in the registry.
get_from_mvr_registry(mvr_name, registry, field_rpc, record_rpc) ==
    LET field_name == dynamic_field_name(mvr_name)
    IN  IF field_name.tag = "Err" THEN field_name
        ELSE IF field_rpc = "unreachable" THEN Err("Failure")
        ELSE IF field_name.value \notin DOMAIN registry THEN Err("InvalidMVRName")
        ELSE get_object(field_name.value, registry, record_rpc)

\* mvr_forward_resolution that trusts the package info without comparing
\* names.
mvr_forward_resolution_NoNameCheck(registry, objects, mvr_name, network, rpc) ==
    LET resolved == resolve_network(network)
        record == get_from_mvr_registry(mvr_name, registry, rpc.field, rpc.record)
    IN  IF resolved.tag = "Err" THEN resolved
        ELSE IF record.tag = "Err" THEN record
        ELSE IF resolved.value = "Mainnet"
        THEN IF is_none(record.value.app_info) THEN Err("InvalidMVRName")
             ELSE IF is_none(unwrap(record.value.app_info).package_address)
                  THEN Err("Failure")
             ELSE Ok(unwrap(unwrap(record.value.app_info).package_address))
        ELSE LET networks == record.value.networks
             IN  IF TESTNET_ID \notin DOMAIN networks THEN Err("InvalidMVRName")
                 ELSE IF is_none(networks[TESTNET_ID].package_info_id) THEN Err("Failure")
                 ELSE LET package_info ==
                              get_object(unwrap(networks[TESTNET_ID].package_info_id),
                                         objects, rpc.info)
                      IN  IF package_info.tag = "Err" THEN package_info
                          ELSE IF "default" \notin DOMAIN package_info.value.metadata
                               THEN Err("Failure")
                          ELSE Ok(package_info.value.package_address)

\* mvr_forward_resolution: the package an MVR name points to.  registry: the
\* MVR registry on mainnet; objects: the objects of the network of the
\* caller's client; rpc: the outcomes of the three reads.
mvr_forward_resolution(registry, objects, mvr_name, network, rpc) ==
    LET resolved == resolve_network(network)
        record == get_from_mvr_registry(mvr_name, registry, rpc.field, rpc.record)
    IN  IF resolved.tag = "Err" THEN resolved
        ELSE IF record.tag = "Err" THEN record
        ELSE IF resolved.value = "Mainnet"
        THEN IF is_none(record.value.app_info) THEN Err("InvalidMVRName")
             ELSE IF is_none(unwrap(record.value.app_info).package_address)
                  THEN Err("Failure")
             ELSE Ok(unwrap(unwrap(record.value.app_info).package_address))
        ELSE LET networks == record.value.networks
             IN  IF TESTNET_ID \notin DOMAIN networks THEN Err("InvalidMVRName")
                 ELSE IF is_none(networks[TESTNET_ID].package_info_id) THEN Err("Failure")
                 ELSE LET package_info ==
                              get_object(unwrap(networks[TESTNET_ID].package_info_id),
                                         objects, rpc.info)
                      IN  IF package_info.tag = "Err" THEN package_info
                          ELSE IF "default" \notin DOMAIN package_info.value.metadata
                               THEN Err("Failure")
                          ELSE IF package_info.value.metadata["default"] # mvr_name
                               THEN Err("InvalidMVRName")
                          ELSE Ok(package_info.value.package_address)

InitMvr ==
    /\ disk = None
    /\ pc = "idle"
    /\ state = None
    /\ messages = <<>>
    /\ idx = 1
    /\ err = "none"
    /\ log = <<>>
    /\ diskAtStart = None
    /\ ledger \in {[registry |-> r, objects |-> PackageInfos] : r \in Registries}
    /\ args \in {Some([mvr_name |-> n, network |-> nw]) : n \in MvrNames, nw \in Networks}
    /\ result = None
    /\ files = NoFiles

\* One call of mvr_forward_resolution.
ApplyMvrForwardResolution ==
    /\ pc = "idle"
    /\ pc' = "resolved"
    /\ \E field_rpc \in {"ok", "unreachable"}, record_rpc, info_rpc \in RpcOutcomes :
        LET rpc == [field |-> field_rpc, record |-> record_rpc, info |-> info_rpc]
        IN  result' = Some([rpc |-> rpc,
                            returned |-> mvr_forward_resolution(
                                ledger.registry, ledger.objects, unwrap(args).mvr_name,
                                unwrap(args).network, rpc)])
    /\ UNCHANGED <<disk, state, messages, idx, err, log, diskAtStart, ledger, args, files>>

NextMvr == ApplyMvrForwardResolution

SpecMvr == InitMvr /\ [][NextMvr]_vars

\* ------------------------------------------------------------ properties
LogHas(op) == \E j \in DOMAIN log : log[j].op = op

\* The persisted config the running process-all invocation loaded.
LoadedConfig == unwrap(diskAtStart).config

\* A process-all invocation is past its directory read.
LoadCompleted ==
    /\ pc \notin {"idle", "quorum", "created", "create_failed"}
    /\ is_some(diskAtStart)
    /\ err \notin {"StateLoad", "KeysLoad", "ReadDir", "MessageParse"}

FreshRun == LoadCompleted /\ is_none(LoadedConfig.old_threshold)

RotationRun == LoadCompleted /\ is_some(LoadedConfig.old_threshold)

\* The invocation went past the quorum check.
QuorumPassed == pc = "new_party" \/ LogHas("new_party")

\* Message i of the directory carries a signature made over its canonical
\* bytes by the key registered for its sender.
Authentic(i) ==
    /\ messages[i].message.sender \in DOMAIN LoadedConfig.signing_pks
    /\ PublicOf(messages[i].signature.signer) =
           LoadedConfig.signing_pks[messages[i].message.sender]
    /\ messages[i].signature.bytes = to_bytes(messages[i].message)

\* C1: every message handed to a processing entry point of the engine is
\* authentic and was verified earlier in the invocation against the signing
\* key registered for its sender; a message that is not authentic stops the
\* loop: it is never routed or processed and the command never completes.
C1_VerifiedBeforeEngine ==
    /\ \A j \in DOMAIN log :
        log[j].op = "process" =>
            /\ Authentic(log[j].i)
            /\ \E k \in 1..(j - 1) :
                /\ log[k].op = "verify"
                /\ log[k].i = log[j].i
                /\ log[k].info =
                       Some(LoadedConfig.signing_pks[messages[log[j].i].message.sender])
    /\ \A i \in 1..Len(messages) :
        ~Authentic(i) =>
            /\ idx <= i
            /\ ~(idx = i /\ pc = "route")
            /\ pc \notin {"complete", "done"}
            /\ ~LogHas("merge")

C1_Witness ==
    /\ pc = "failed"
    /\ err = "SignatureInvalid"
    /\ LogHas("process")

\* C2: once a processing call returned a complaint, it is the last call of
\* the invocation: the command has failed at that message, no later message
\* is verified or processed, merge and complete are not invoked and the
\* state holds no output it did not hold before.
C2_ComplaintStops ==
    \A j \in DOMAIN log :
        (log[j].op = "process" /\ unwrap(log[j].info).returned = "complaint") =>
            /\ j = Len(log)
            /\ pc = "failed"
            /\ err = "Complaint"
            /\ idx = log[j].i
            /\ unwrap(state).output = unwrap(diskAtStart).output
            /\ unwrap(disk).output = unwrap(diskAtStart).output

C2_Witness ==
    /\ pc = "failed"
    /\ err = "Complaint"
    /\ 1 < idx
    /\ idx < Len(messages)

\* C3: after process-all failed on a complaint of a single message, the
\* processed-message list of state.json contains every message processed
\* successfully before it in that invocation.
C3_ProgressPersistedOnComplaint ==
    (pc = "failed" /\ err = "Complaint") =>
        \A j \in DOMAIN log :
            (log[j].op = "process" /\ unwrap(log[j].info).returned = "ok") =>
                \E k \in DOMAIN unwrap(disk).processed_messages :
                    unwrap(disk).processed_messages[k].message = messages[log[j].i].message

\* C4: once merge returned a confirmation with complaints, it is the last
\* call of the invocation: the command has failed, state.json holds that
\* confirmation with the used messages, no completion entry point was
\* invoked and the persisted output is absent.
C4_DisputePersisted ==
    \A j \in DOMAIN log :
        (log[j].op = "merge" /\ unwrap(log[j].info).returned = "complaints") =>
            /\ j = Len(log)
            /\ pc = "failed"
            /\ err = "MergeComplaint"
            /\ ~LogHas("complete")
            /\ is_some(disk)
            /\ is_some(unwrap(disk).confirmation)
            /\ unwrap(unwrap(disk).confirmation)[1].complaints # <<>>
            /\ unwrap(unwrap(disk).confirmation)[2] = unwrap(log[j].info).processed
            /\ unwrap(disk).processed_messages = unwrap(log[j].info).processed
            /\ is_none(unwrap(disk).output)

C4_Witness ==
    /\ pc = "failed"
    /\ err = "MergeComplaint"
    /\ LogHas("merge")
    /\ disk # diskAtStart

\* C5: after process-all completed, state.json contains the output, the
\* confirmation and the processed messages that produced it.
C5_OutputPersisted ==
    pc = "done" =>
        /\ is_some(disk)
        /\ is_some(unwrap(disk).output)
        /\ is_some(unwrap(disk).confirmation)
        /\ unwrap(disk).processed_messages = unwrap(state).processed_messages

\* C6: a process-all failure that is not a complaint leaves state.json as it
\* was when the invocation began.
C6_FailureLeavesState ==
    (pc = "failed" /\ err \notin {"Complaint", "MergeComplaint"}) => disk = diskAtStart

C6_Witness ==
    /\ pc = "failed"
    /\ err = "CompleteFailure"
    /\ state # disk

\* C7 as stated: in a fresh DKG with N nodes the invocation fails with the
\* insufficient-messages error of the fresh branch exactly when the number
\* of loaded messages differs from N.
C7_FreshQuorumAnyCount ==
    FreshRun =>
        /\ (Len(messages) # num_nodes(LoadedConfig.nodes))
               <=> (pc = "failed" /\ err = "InsufficientFresh")
        /\ (Len(messages) = num_nodes(LoadedConfig.nodes)) => QuorumPassed

\* C7 amended: in a fresh DKG with N nodes and at least one loaded message,
\* the invocation fails with the insufficient-messages error of the fresh
\* branch exactly when the number of loaded messages differs from N, and
\* goes past the count check when it is N.
C7_FreshQuorum ==
    (FreshRun /\ messages # <<>>) =>
        /\ (Len(messages) # num_nodes(LoadedConfig.nodes))
               <=> (pc = "failed" /\ err = "InsufficientFresh")
        /\ (Len(messages) = num_nodes(LoadedConfig.nodes)) => QuorumPassed

C7_Witness ==
    /\ FreshRun
    /\ Len(messages) = num_nodes(LoadedConfig.nodes) + 1
    /\ pc = "failed"
    /\ err = "InsufficientFresh"

\* C8 as stated: in a rotation with old threshold T the invocation fails
\* with the insufficient-messages error of the rotation branch exactly when
\* fewer than T messages are loaded.
C8_RotationQuorumAnyCount ==
    RotationRun =>
        /\ (Len(messages) < unwrap(LoadedConfig.old_threshold))
               <=> (pc = "failed" /\ err = "InsufficientRotation")
        /\ (Len(messages) >= unwrap(LoadedConfig.old_threshold)) => QuorumPassed

\* C8 amended: in a rotation with old threshold T and at least one loaded
\* message, the invocation fails with the insufficient-messages error of the
\* rotation branch exactly when fewer than T messages are loaded, and goes
\* past the count check when T or more are loaded.
C8_RotationQuorum ==
    (RotationRun /\ messages # <<>>) =>
        /\ (Len(messages) < unwrap(LoadedConfig.old_threshold))
               <=> (pc = "failed" /\ err = "InsufficientRotation")
        /\ (Len(messages) >= unwrap(LoadedConfig.old_threshold)) => QuorumPassed

C8_Witness ==
    /\ RotationRun
    /\ Len(messages) = unwrap(LoadedConfig.old_threshold)
    /\ QuorumPassed

\* C9: in a fresh DKG that passed the quorum check, every party id of the
\* persisted node list is the sender of exactly one loaded message.
C9_OneMessagePerParty ==
    (FreshRun /\ QuorumPassed) =>
        \A p \in DOMAIN LoadedConfig.nodes :
            Cardinality({i \in 1..Len(messages) : messages[i].message.sender = p}) = 1

\* The quorum precondition, from the persisted config and the number of
\* loaded messages.
QuorumHolds ==
    IF is_some(LoadedConfig.old_threshold)
    THEN Len(messages) >= unwrap(LoadedConfig.old_threshold)
    ELSE Len(messages) = Cardinality(DOMAIN LoadedConfig.nodes)

EngineOps == {"new_party", "verify", "process", "merge", "complete"}

\* C10: the construction of the engine party, every signature verification
\* and every engine call of an invocation come after its quorum check, and
\* none of them happens in an invocation whose quorum is not met.
C10_QuorumFirst ==
    /\ \A j \in DOMAIN log :
        log[j].op \in EngineOps => \E k \in 1..(j - 1) : log[k].op = "quorum"
    /\ (is_some(diskAtStart) /\ ~QuorumHolds) =>
        /\ \A j \in DOMAIN log : log[j].op \notin EngineOps
        /\ pc \notin {"new_party", "loop", "route", "complete", "done"}

C10_Witness ==
    /\ pc = "failed"
    /\ err \in {"InsufficientFresh", "InsufficientRotation"}
    /\ messages[1] = HonestMessage(1)
    /\ LogHas("quorum")

\* ------------------------------------------- properties of create-message
\* A create-message invocation has returned.
CreateDone == pc \in {"created", "create_failed"}

\* The committee named by --committee-id, as it is on the ledger.
ArgCommittee == ledger[unwrap(args).committee_id]

InMembers(committee, a) == \E i \in 1..Len(committee.members) : committee.members[i] = a

KeysLoaded == is_some(unwrap(args).keys_file)

StateIsInit == ArgCommittee.state.kind = "Init"

CallerIsMember == InMembers(ArgCommittee, unwrap(args).my_address)

AllRegistered ==
    \A i \in 1..Len(ArgCommittee.members) :
        ArgCommittee.members[i] \in DOMAIN ArgCommittee.state.members_info

EncKeyEqual ==
    unwrap(unwrap(args).keys_file).enc_pk
        = ArgCommittee.state.members_info[unwrap(args).my_address].enc_pk

SigningKeyEqual ==
    unwrap(unwrap(args).keys_file).signing_pk
        = ArgCommittee.state.members_info[unwrap(args).my_address].signing_pk

\* The invocation passed every validation that precedes the role checks.
Validated ==
    /\ KeysLoaded /\ StateIsInit /\ CallerIsMember /\ AllRegistered
    /\ EncKeyEqual /\ SigningKeyEqual

IsRotation == is_some(ArgCommittee.old_committee_id)

ShareSupplied == is_some(unwrap(args).old_share)

InOldCommittee ==
    /\ IsRotation
    /\ InMembers(ledger[unwrap(ArgCommittee.old_committee_id)], unwrap(args).my_address)

ArtifactWritten == LogHas("write_message")

\* C11: in a rotation create-message succeeds only if an old share is
\* supplied exactly when the caller is a member of the old committee; a
\* validated call of a continuing member without share, or of a non-member
\* with a share, returns the rotation-role error.
C11_RotationRole ==
    /\ (pc = "created" /\ IsRotation) => (ShareSupplied <=> InOldCommittee)
    /\ (CreateDone /\ Validated /\ IsRotation /\ (ShareSupplied # InOldCommittee))
           => (pc = "create_failed" /\ err = "RotationRole")

C11_Witness ==
    /\ pc = "create_failed" /\ err = "RotationRole"
    /\ ~ShareSupplied /\ InOldCommittee

\* C12: a call that supplies an old share for a committee without
\* old_committee_id never succeeds and writes no message artifact; when the
\* call is otherwise valid it returns the role-mismatch error.
C12_NoShareInFreshDkg ==
    /\ (CreateDone /\ ~IsRotation /\ ShareSupplied)
           => (pc = "create_failed" /\ ~ArtifactWritten)
    /\ (CreateDone /\ Validated /\ ~IsRotation /\ ShareSupplied)
           => err = "OldShareForFresh"

C12_Witness ==
    /\ pc = "create_failed" /\ err = "OldShareForFresh"
    /\ ~IsRotation /\ ShareSupplied /\ ~ArtifactWritten

\* C13: create-message fails whenever the fetched committee is not in state
\* Init, with the invalid-state error once the keys file was read, and writes
\* no message artifact and no state for such a committee.
C13_OnlyInit ==
    (CreateDone /\ ~StateIsInit)
        => /\ pc = "create_failed"
           /\ ~ArtifactWritten
           /\ ~LogHas("save")
           /\ KeysLoaded => err = "NotInit"

C13_Witness ==
    /\ pc = "create_failed" /\ err = "NotInit"
    /\ ArgCommittee.state.kind = "PostDKG"
    /\ CallerIsMember /\ AllRegistered /\ EncKeyEqual /\ SigningKeyEqual

\* C14: create-message fails whenever the caller's address is not in the
\* member list of the fetched committee, with the not-a-member error once the
\* keys file was read and the committee found in state Init.
C14_CallerMustBeMember ==
    (CreateDone /\ ~CallerIsMember)
        => /\ pc = "create_failed"
           /\ (KeysLoaded /\ StateIsInit) => err = "NotAMember"

C14_Witness ==
    /\ pc = "create_failed" /\ err = "NotAMember"
    /\ ~CallerIsMember /\ AllRegistered

\* C15: create-message succeeds only if both local public keys equal the
\* registered ones; a call that passed the earlier checks returns the
\* key-mismatch error as soon as one of the two differs.
C15_BothKeysMustMatch ==
    /\ pc = "created" => (EncKeyEqual /\ SigningKeyEqual)
    /\ (CreateDone /\ KeysLoaded /\ StateIsInit /\ CallerIsMember /\ AllRegistered
            /\ ~(EncKeyEqual /\ SigningKeyEqual))
           => (pc = "create_failed" /\ err = "KeyMismatch")

C15_Witness ==
    /\ pc = "create_failed" /\ err = "KeyMismatch"
    /\ EncKeyEqual /\ ~SigningKeyEqual

\* The message artifact written by the invocation is the message of the
\* caller's party id, signed over its canonical bytes by the local signing
\* key, and is the message recorded in the persisted state.
ArtifactIsMyMessage ==
    \E j \in DOMAIN log :
        /\ log[j].op = "write_message"
        /\ LET signed_msg == unwrap(log[j].info)
           IN  /\ Some(signed_msg.message) = unwrap(disk).my_message
               /\ ArgCommittee.members[signed_msg.message.sender + 1]
                      = unwrap(args).my_address
               /\ signed_msg.signature.signer
                      = unwrap(unwrap(args).keys_file).signing_sk
               /\ signed_msg.signature.bytes = <<"msg", signed_msg.message.sender>>

\* C16: a successful create-message writes a signed message artifact and
\* records my_message exactly when the DKG is fresh or an old share was
\* supplied; a new joiner of a rotation writes no artifact and persists a
\* state without my_message.
C16_MessageOnlyForDealers ==
    pc = "created"
        => IF ~IsRotation \/ ShareSupplied
           THEN is_some(unwrap(disk).my_message) /\ ArtifactIsMyMessage
           ELSE is_none(unwrap(disk).my_message) /\ ~ArtifactWritten

C16_Witness ==
    /\ pc = "created" /\ IsRotation /\ ~ShareSupplied
    /\ is_none(unwrap(disk).my_message) /\ ~ArtifactWritten

\* A successful create-message of a dealer: the artifact is there.
C16_DealerWitness ==
    /\ pc = "created" /\ IsRotation /\ ShareSupplied /\ ArtifactIsMyMessage

\* C19: in the state persisted by create-message the three rotation fields
\* are all present or all absent, my_old_share and my_old_pk are both present
\* or both absent, and my_old_share is present exactly when the run is a
\* rotation and the caller was a member of the old committee.
C19_RotationFieldsTogether ==
    pc = "created"
        => LET config == unwrap(disk).config
           IN  /\ is_some(config.old_threshold) = is_some(config.new_to_old_mapping)
               /\ is_some(config.old_threshold) = is_some(config.expected_old_pks)
               /\ is_some(config.old_threshold) = IsRotation
               /\ is_some(config.my_old_share) = is_some(config.my_old_pk)
               /\ is_some(config.my_old_share) = InOldCommittee

C19_Witness ==
    /\ pc = "created" /\ InOldCommittee
    /\ is_some(unwrap(disk).config.my_old_share)
    /\ is_some(unwrap(disk).config.expected_old_pks)

\* ---------------------------------------- properties of the committee helpers
NoRepeat(members) ==
    \A i, j \in 1..Len(members) : members[i] = members[j] => i = j

\* Every listed member has an entry in the registration table of a committee
\* whose state carries one.
EveryMemberRegistered(committee) ==
    /\ committee.state.kind \in {"Init", "PostDKG"}
    /\ \A i \in 1..Len(committee.members) :
           committee.members[i] \in DOMAIN committee.state.members_info

\* C17: get_members_info returns one entry per address of the member list,
\* holding the registered keys and a party_id that is the zero-based position
\* of the address in the list (the last one when the address is repeated);
\* it fails when a listed member has no registration and never returns a
\* table without one of the members.
C17_OneEntryPerMember ==
    pc = "got_members_info"
        => LET committee == unwrap(args).committee
               members == committee.members
           IN  IF EveryMemberRegistered(committee)
               THEN /\ is_some(result)
                    /\ DOMAIN unwrap(result) = {members[i] : i \in 1..Len(members)}
                    /\ \A a \in DOMAIN unwrap(result) :
                           LET entry == unwrap(result)[a]
                           IN  /\ entry.party_id \in 0..(Len(members) - 1)
                               /\ members[entry.party_id + 1] = a
                               /\ \A j \in 1..Len(members) :
                                      members[j] = a => j - 1 <= entry.party_id
                               /\ entry.address = a
                               /\ entry.enc_pk = committee.state.members_info[a].enc_pk
                               /\ entry.signing_pk
                                      = committee.state.members_info[a].signing_pk
               ELSE is_none(result)

C17_Witness ==
    /\ pc = "got_members_info"
    /\ unwrap(args).committee.members = <<"a3", "a1", "a2">>
    /\ is_some(result)
    /\ unwrap(result)["a3"].party_id = 0
    /\ unwrap(result)["a2"].party_id = 2

\* get_members_info refuses a committee in state Init with an unregistered
\* member.
C17_RefusalWitness ==
    /\ pc = "got_members_info"
    /\ unwrap(args).committee.members = <<"a1", "a2">>
    /\ unwrap(args).committee.state.kind = "Init"
    /\ DOMAIN unwrap(args).committee.state.members_info = {"a1"}
    /\ is_none(result)

\* C18: build_new_to_old_map has an entry for new party id i exactly when
\* new.members[i] occurs in old.members, and maps i to the (first) position of
\* that address in old.members; when no address is repeated in either list
\* the map is injective.
C18_NewToOldByAddress ==
    pc = "built_map"
        => LET new == unwrap(args).committee.members
               old == unwrap(args).old_committee.members
               map == unwrap(result)
           IN  /\ DOMAIN map = {i \in 0..(Len(new) - 1) :
                                   \E j \in 1..Len(old) : old[j] = new[i + 1]}
               /\ \A i \in DOMAIN map :
                      /\ map[i] \in 0..(Len(old) - 1)
                      /\ old[map[i] + 1] = new[i + 1]
                      /\ \A j \in 1..map[i] : old[j] # new[i + 1]
               /\ (NoRepeat(new) /\ NoRepeat(old))
                      => \A i, k \in DOMAIN map : map[i] = map[k] => i = k

C18_Witness ==
    /\ pc = "built_map"
    /\ unwrap(args).committee.members = <<"a1", "a2", "a3">>
    /\ unwrap(args).old_committee.members = <<"a3", "a2">>
    /\ DOMAIN unwrap(result) = {1, 2}
    /\ unwrap(result)[1] = 1
    /\ unwrap(result)[2] = 0

\* ------------------------------------------- properties of the ledger reads
\* The signing keys registered on the ledger for the committee of the
\* persisted config, by party id.
LedgerSigningPks(committee) ==
    [p \in 0..(Len(committee.members) - 1) |->
        committee.state.members_info[committee.members[p + 1]].signing_pk]

InProcessAll == pc \in {"quorum", "new_party", "loop", "route", "complete", "done", "failed"}

\* C21: process-all with no persisted state fails at the load and calls
\* nothing else; a merge comes only after every loaded message was processed
\* without complaint, and a completion only after a merge that returned a
\* confirmation without complaints.
C21_PhaseOrder ==
    /\ (InProcessAll /\ is_none(diskAtStart))
           => /\ pc = "failed" /\ err = "StateLoad"
              /\ \A j \in DOMAIN log : log[j].op = "load"
    /\ \A j \in DOMAIN log :
           log[j].op = "merge"
               => \A i \in 1..Len(messages) :
                      \E k \in 1..(j - 1) :
                          /\ log[k].op = "process" /\ log[k].i = i
                          /\ unwrap(log[k].info).returned = "ok"
    /\ \A j \in DOMAIN log :
           log[j].op = "complete"
               => \E k \in 1..(j - 1) :
                      log[k].op = "merge" /\ unwrap(log[k].info).returned = "ok"

C21_Witness ==
    /\ pc = "done"
    /\ LogHas("merge") /\ LogHas("complete")
    /\ Len(messages) = 3

\* process-all against a directory without state.json.
C21_UninitializedWitness ==
    /\ pc = "failed" /\ err = "StateLoad" /\ is_none(diskAtStart)

\* The state directory held a confirmation with complaints when the
\* invocation began.
StartedDisputed ==
    /\ InProcessAll
    /\ is_some(diskAtStart)
    /\ is_some(unwrap(diskAtStart).confirmation)
    /\ unwrap(unwrap(diskAtStart).confirmation)[1].complaints # <<>>

\* C22: a process-all invocation against a state directory that holds a
\* confirmation with complaints neither calls completion nor produces an
\* Output.
C22_DisputedIsTerminal ==
    StartedDisputed
        => /\ ~LogHas("complete")
           /\ is_none(unwrap(state).output)

\* C23: the processed-message list handed to merge holds exactly one entry
\* per message loaded in this invocation, in the order of the loop, as in a
\* single run from the state create-message wrote.
C23_RerunMergesSameList ==
    \A j \in DOMAIN log :
        log[j].op = "merge"
            => LET processed == unwrap(log[j].info).processed
               IN  /\ Len(processed) = Len(messages)
                   /\ \A i \in 1..Len(messages) :
                          processed[i].message = messages[i].message

\* C24: an invocation that starts from persisted progress neither verifies
\* nor processes a message recorded in the persisted processed-message list.
C24_NoSecondVerification ==
    (InProcessAll /\ is_some(diskAtStart))
        => \A j \in DOMAIN log :
               log[j].op \in {"verify", "process"}
                   => \A k \in 1..Len(unwrap(diskAtStart).processed_messages) :
                          unwrap(diskAtStart).processed_messages[k].message
                              # messages[log[j].i].message

\* C27: a message whose signed bytes are not its canonical bytes, or whose
\* signature was made by another key than the one registered for the party id
\* in its sender field, fails the verification; process-all returns there and
\* never hands the message to the engine.
C27_TamperedOrForeignRejected ==
    LoadCompleted
        => \A j \in DOMAIN log :
               log[j].op = "verify"
                   => LET m == messages[log[j].i]
                          registered == LoadedConfig.signing_pks[m.message.sender]
                          altered == m.signature.bytes # <<"msg", m.message.sender>>
                          foreign == PublicOf(m.signature.signer) # registered
                      IN  /\ log[j].info = Some(registered)
                          /\ (altered \/ foreign)
                                 => /\ pc = "failed" /\ err = "SignatureInvalid"
                                    /\ j = Len(log)
                                    /\ \A k \in DOMAIN log :
                                           ~(log[k].op = "process" /\ log[k].i = log[j].i)

\* Party 1's message, signed by party 2 over its canonical bytes, is
\* rejected.
C27_Witness ==
    /\ LoadCompleted
    /\ pc = "failed" /\ err = "SignatureInvalid"
    /\ \E i \in 1..Len(messages) :
           /\ messages[i].message.sender = 1
           /\ messages[i].signature.signer = KeysOf("a3").signing_sk
           /\ messages[i].signature.bytes = <<"msg", 1>>
           /\ log[Len(log)] = Event("verify", i, Some(KeysOf("a2").signing_pk))

\* process-all was given one correctly signed message from each party of
\* the config and nothing else.
OneAuthenticMessagePerParty ==
    /\ Len(messages) = Cardinality(DOMAIN LoadedConfig.nodes)
    /\ \A i \in 1..Len(messages) : Authentic(i)
    /\ \A i, k \in 1..Len(messages) :
           messages[i].message.sender = messages[k].message.sender => i = k

\* The return sites at which the engine failed or complained.
EngineSites ==
    {"PartyNew", "ProcessFailure", "Complaint", "MergeFailure", "MergeComplaint",
     "CompleteFailure"}

\* C29: a fresh run given one correctly signed message from each of its N
\* parties fails only where the engine fails or complains; when it completes
\* it reports one key server public key and N partial public keys, that of
\* party id p being the public polynomial evaluated at p + 1.
C29_FreshRunCompletes ==
    FreshRun
        => /\ (OneAuthenticMessagePerParty /\ pc = "failed") => err \in EngineSites
           /\ pc = "done"
                  => /\ is_some(unwrap(state).output)
                     /\ Cardinality({j \in DOMAIN log : log[j].op = "report"}) = 1
                     /\ LET vss_pk == unwrap(unwrap(state).output).vss_pk
                            report == unwrap(log[Len(log)].info)
                            N == Cardinality(DOMAIN LoadedConfig.nodes)
                        IN  /\ log[Len(log)].op = "report"
                            /\ report.key_server_pk = [c0_of |-> vss_pk]
                            /\ DOMAIN report.partial_pks = 0..(N - 1)
                            /\ \A p \in 0..(N - 1) :
                                   report.partial_pks[p]
                                       = [eval_of |-> vss_pk, at |-> p + 1]

C29_Witness ==
    /\ FreshRun /\ OneAuthenticMessagePerParty /\ pc = "done"
    /\ Cardinality(DOMAIN LoadedConfig.nodes) = 2
    /\ LogHas("report")

\* ------------------------------------------------ properties of the files
\* C28: a KeysFile read back from its JSON has, field by field, the value
\* and the canonical bytes of the KeysFile that was written; a SignedMessage
\* read back from its message artifact has the value and the canonical bytes
\* of the one that was written.
C28_RoundTrip ==
    /\ pc = "keys_loaded"
           => /\ is_some(result)
              /\ \A f \in KeysFileFields :
                     /\ unwrap(result)[f] = unwrap(args).created_keys_file[f]
                     /\ bcs_to_bytes(unwrap(result)[f])
                            = bcs_to_bytes(unwrap(args).created_keys_file[f])
    /\ pc = "message_read"
           => /\ is_some(result)
              /\ unwrap(result) = unwrap(args).signed_message
              /\ signed_to_bytes(unwrap(result))
                     = signed_to_bytes(unwrap(args).signed_message)

\* Keys whose bytes are below 16 came back from the file.
C28_Witness ==
    /\ pc = "keys_loaded"
    /\ unwrap(args).created_keys_file = KeysFile("a1", "a4")
    /\ result = Some(KeysFile("a1", "a4"))

C28_MessageWitness ==
    /\ pc = "message_read"
    /\ result = Some(HonestMessage(2))

\* C30: whenever the keys file holds the secret keys its mode is owner
\* read/write only.
C30_SecretsOwnerOnly ==
    is_some(files.keys_file) => unwrap(files.keys_file).mode = <<6, 0, 0>>

\* -------------------------------------------- properties of the signatures
\* C26: a message signed by sign_message with a secret key passes
\* verify_signature under the public key of that secret key.
C26_SignThenVerify ==
    (pc = "verified" /\ unwrap(args).pk = [pub_of |-> unwrap(args).sk])
        => unwrap(result).ok

C26_Witness ==
    /\ pc = "verified"
    /\ unwrap(args).sk = KeysOf("a2").signing_sk
    /\ unwrap(args).pk = KeysOf("a2").signing_pk
    /\ unwrap(result).signed_msg.message = unwrap(args).message
    /\ unwrap(result).ok

\* --------------------------------------- properties of the enumeration order
\* The return sites of the per-message loop.
LoopSites ==
    {"UnknownSender", "SignatureInvalid", "MissingMapping", "NotInMapping", "MissingOldPks",
     "NoExpectedPk", "RotationVerification", "ProcessFailure", "Complaint"}

\* The number of entries of a processed-message list equal to x.
Occurrences(processed, x) == Cardinality({k \in 1..Len(processed) : processed[k] = x})

\* C25 as stated: two enumeration orders of the same files end process-all
\* at the same return site and with the same state.json.
C25_SameResultInAnyOrder ==
    pc = "ran_twice"
        => /\ unwrap(result).first.site = unwrap(result).second.site
           /\ unwrap(result).first.disk = unwrap(result).second.disk

\* C25: two enumeration orders of the same files both succeed or both fail;
\* a failure outside the per-message loop is the same in both, a failure
\* inside the loop is a failure inside the loop in both (of the message that
\* fails first in each order); state.json is the same except that after a
\* dispute the processed messages are saved in the order of the enumeration.
C25_OrderChangesOnlyLoopFailure ==
    pc = "ran_twice"
        => LET first == unwrap(result).first
               second == unwrap(result).second
           IN  /\ (first.site = "ok") = (second.site = "ok")
               /\ (first.site \in LoopSites) = (second.site \in LoopSites)
               /\ (first.site \notin LoopSites) => first.site = second.site
               /\ unwrap(first.disk).config = unwrap(second.disk).config
               /\ unwrap(first.disk).confirmation = None
                      => first.disk = second.disk
               /\ \A x \in {unwrap(first.disk).processed_messages[k] :
                                k \in 1..Len(unwrap(first.disk).processed_messages)}
                        \cup {unwrap(second.disk).processed_messages[k] :
                                  k \in 1..Len(unwrap(second.disk).processed_messages)} :
                      Occurrences(unwrap(first.disk).processed_messages, x)
                          = Occurrences(unwrap(second.disk).processed_messages, x)

\* Two orders of the same two files fail at different sites.
C25_Witness ==
    /\ pc = "ran_twice"
    /\ unwrap(result).reordered # unwrap(args).listing
    /\ unwrap(result).first.site = "SignatureInvalid"
    /\ unwrap(result).second.site = "UnknownSender"

\* Two orders of the same two files succeed.
C25_SuccessWitness ==
    /\ pc = "ran_twice"
    /\ unwrap(result).reordered # unwrap(args).listing
    /\ unwrap(result).first.site = "ok"
    /\ unwrap(result).second.site = "ok"

\* ------------------------------------------ properties of the rotation runs
\* The old party id of the caller whose state is config.
MyOldPartyId(config) == unwrap(config.new_to_old_mapping)[config.my_party_id]

\* The caller's old share does not correspond to the partial public key the
\* old committee published for the caller's old party id.
OldShareMismatch(config) ==
    /\ is_some(config.old_threshold)
    /\ is_some(config.my_old_share)
    /\ config.my_party_id \in DOMAIN unwrap(config.new_to_old_mapping)
    /\ G2Mul(unwrap(config.my_old_share))
           # unwrap(config.expected_old_pks)[MyOldPartyId(config)]

\* The listing holds one message of each of some other parties, each signed
\* by its sender.
OnlyOthersMessages(config, listing) ==
    \A i \in 1..Len(listing) :
        /\ listing[i].message.sender # config.my_party_id
        /\ listing[i].message.sender \in DOMAIN config.signing_pks
        /\ PublicOf(listing[i].signature.signer)
               = config.signing_pks[listing[i].message.sender]
        /\ listing[i].signature.bytes = to_bytes(listing[i].message)
        /\ \A j \in 1..Len(listing) : listing[j] = listing[i] => j = i

\* C31: a process-all invocation of a rotation whose caller holds an old
\* share that does not correspond to the partial public key published for
\* its old party id never completes, whichever quorum of messages of the
\* other parties it is given.
C31_MismatchedShareNeverCompletes ==
    (/\ pc = "ran"
     /\ ledger = LedgerRotation
     /\ OldShareMismatch(unwrap(args).loaded.config)
     /\ OnlyOthersMessages(unwrap(args).loaded.config, unwrap(args).listing))
        => unwrap(result).site # "ok"

\* ------------------------------------------ properties of the MVR resolution
\* The network the resolution is made for.
OnNetwork(n) ==
    \/ unwrap(args).network.kind = n
    \/ /\ unwrap(args).network.kind = "Custom"
       /\ n = (IF unwrap(args).network.use_default_mainnet_for_mvr = Some(FALSE)
               THEN "Testnet" ELSE "Mainnet")

\* The registry holds a record under the requested name.
RecordOf == ledger.registry[unwrap(args).mvr_name]

HasRecord == unwrap(args).mvr_name \in DOMAIN ledger.registry

\* The package info object the testnet entry of the record points to.
HasPackageInfo ==
    /\ HasRecord
    /\ TESTNET_ID \in DOMAIN RecordOf.networks
    /\ is_some(RecordOf.networks[TESTNET_ID].package_info_id)
    /\ unwrap(RecordOf.networks[TESTNET_ID].package_info_id) \in DOMAIN ledger.objects

PackageInfoOf == ledger.objects[unwrap(RecordOf.networks[TESTNET_ID].package_info_id)]

\* C32: on testnet an address is returned only when the package info object
\* the record points to was fetched and its 'default' name equals the
\* requested name, and it is the address of that object; a fetched object
\* with another 'default' name gives InvalidMVRName.  On mainnet the address
\* returned is the package_address of the record's app_info.
C32_TestnetChecksName ==
    pc = "resolved" =>
        LET returned == unwrap(result).returned
            rpc == unwrap(result).rpc
        IN  /\ (OnNetwork("Testnet") /\ returned.tag = "Ok") =>
                   /\ HasPackageInfo
                   /\ "default" \in DOMAIN PackageInfoOf.metadata
                   /\ PackageInfoOf.metadata["default"] = unwrap(args).mvr_name
                   /\ returned.value = PackageInfoOf.package_address
            /\ (/\ OnNetwork("Testnet")
                /\ HasPackageInfo
                /\ rpc = [field |-> "ok", record |-> "ok", info |-> "ok"]
                /\ "default" \in DOMAIN PackageInfoOf.metadata
                /\ PackageInfoOf.metadata["default"] # unwrap(args).mvr_name)
                   => returned = Err("InvalidMVRName")
            /\ (OnNetwork("Mainnet") /\ returned.tag = "Ok") =>
                   /\ HasRecord
                   /\ is_some(RecordOf.app_info)
                   /\ Some(returned.value) = unwrap(RecordOf.app_info).package_address

\* A testnet resolution refused because the package info carries another
\* name.
C32_Witness ==
    /\ pc = "resolved"
    /\ unwrap(args).network.kind = "Testnet"
    /\ HasPackageInfo
    /\ unwrap(result).rpc = [field |-> "ok", record |-> "ok", info |-> "ok"]
    /\ PackageInfoOf.metadata = [default |-> "@pkg/b"]
    /\ unwrap(result).returned = Err("InvalidMVRName")

\* A testnet resolution and a mainnet resolution that return an address.
C32_TestnetAddressWitness ==
    /\ pc = "resolved"
    /\ unwrap(args).network.kind = "Testnet"
    /\ unwrap(result).returned = Ok("0xT1")

C32_MainnetAddressWitness ==
    /\ pc = "resolved"
    /\ unwrap(args).network.kind = "Mainnet"
    /\ unwrap(result).returned = Ok("0xM")

\* ------------------------------------------------ properties of termination
\* The number of events of the log with the given op and message index.
Calls(op, i) == Cardinality({j \in DOMAIN log : log[j].op = op /\ log[j].i = i})

\* Within the running invocation no two events of the log are the same call:
\* no message is verified or processed twice, no committee is fetched twice,
\* and no other call is made twice.
AtMostOnce ==
    \A j \in DOMAIN log :
        /\ log[j].op \in {"verify", "process"} => log[j].i \in 1..Len(messages)
        /\ \A k \in (j + 1)..Len(log) :
               (log[k].op = log[j].op /\ log[k].i = log[j].i)
                   => (log[j].op = "fetch" /\ log[k].info # log[j].info)

\* A step of a running process-all invocation either ends it or takes it
\* forward: one more call made, or the next position of the loop.
StepAdvances ==
    (pc \in {"quorum", "new_party", "loop", "route", "complete"})
        => \/ pc' \in {"done", "failed"}
           \/ Len(log') = Len(log) + 1 /\ idx' >= idx /\ idx' <= Len(messages) + 1

\* C33: an invocation makes no call twice (each loaded message is verified
\* at most once and processed at most once, merge and complete are invoked
\* at most once), and every step of a process-all invocation either ends it
\* or makes one more of these calls, so that it ends after at most
\* 2 * Len(messages) + 5 calls.
C33_NoRetry == [](AtMostOnce /\ Len(log) <= 2 * Len(messages) + 6) /\ [][StepAdvances]_vars

\* A completed invocation in which each of three messages was verified once
\* and processed once, and merge and complete were called once.
C33_Witness ==
    /\ pc = "done"
    /\ Len(messages) = 3
    /\ \A i \in 1..Len(messages) : Calls("verify", i) = 1 /\ Calls("process", i) = 1
    /\ Calls("merge", 0) = 1
    /\ Calls("complete", 0) = 1

\* ---------------------------------------------- properties of the routing
\* The persisted mapping has an entry for the sender of message i and the
\* persisted expected keys have one for the old party id it gives.
ExpectedKeyKnown(i) ==
    /\ is_some(LoadedConfig.new_to_old_mapping)
    /\ messages[i].message.sender \in DOMAIN unwrap(LoadedConfig.new_to_old_mapping)
    /\ is_some(LoadedConfig.expected_old_pks)
    /\ unwrap(LoadedConfig.new_to_old_mapping)[messages[i].message.sender]
           \in DOMAIN unwrap(LoadedConfig.expected_old_pks)

\* The key expected_old_pks[new_to_old_mapping[sender]] of message i.
ExpectedKey(i) ==
    unwrap(LoadedConfig.expected_old_pks)[
        unwrap(LoadedConfig.new_to_old_mapping)[messages[i].message.sender]]

C34_AbortWitness ==
    /\ RotationRun
    /\ pc = "failed"
    /\ err = "NotInMapping"
    /\ ~ExpectedKeyKnown(idx)

C34_FreshWitness == FreshRun /\ LogHas("process")

\* -------------------------------------------- properties of the completion
\* The entry points of the rotation mode.
RotationEntries == {"process_message_and_check_pk", "complete_optimistic_key_rotation"}

\* C35: the completion call is the rotation-aware entry point, fed the
\* persisted new-to-old mapping, exactly when the persisted config holds an
\* old_threshold, and the plain entry point otherwise; every processing call
\* of the same invocation was made in the same mode.
C35_CompletionMode ==
    LoadCompleted =>
        \A j \in DOMAIN log : log[j].op = "complete" =>
            /\ (unwrap(log[j].info).call.entry = "complete_optimistic_key_rotation"
                    <=> is_some(LoadedConfig.old_threshold))
            /\ (unwrap(log[j].info).call.entry = "complete_optimistic"
                    <=> is_none(LoadedConfig.old_threshold))
            /\ unwrap(log[j].info).call.sender_to_old_map =
                   (IF is_some(LoadedConfig.old_threshold)
                    THEN LoadedConfig.new_to_old_mapping ELSE None)
            /\ is_some(LoadedConfig.old_threshold) => is_some(LoadedConfig.new_to_old_mapping)
            /\ \A k \in DOMAIN log : log[k].op = "process" =>
                   (unwrap(log[k].info).call.entry \in RotationEntries
                        <=> unwrap(log[j].info).call.entry \in RotationEntries)

\* A completed rotation: the messages were processed and the run completed
\* through the rotation-aware entry points, with the persisted mapping.
C35_Witness ==
    /\ RotationRun
    /\ pc = "done"
    /\ LogHas("process")
    /\ \E j \in DOMAIN log :
           /\ log[j].op = "complete"
           /\ unwrap(log[j].info).call =
                  [entry |-> "complete_optimistic_key_rotation",
                   sender_to_old_map |-> Some((1 :> 0) @@ (2 :> 1))]

\* A completed fresh DKG.
C35_FreshWitness ==
    /\ FreshRun
    /\ pc = "done"
    /\ \E j \in DOMAIN log :
           /\ log[j].op = "complete"
           /\ unwrap(log[j].info).call.entry = "complete_optimistic"

\* ------------------------------------------ properties of the protocol state
\* An output is present only with a confirmation that carries no complaint.
OutputOnlyIfConfirmed(st) ==
    is_some(st.output) =>
        /\ is_some(st.confirmation)
        /\ unwrap(st.confirmation)[1].complaints = <<>>

\* A confirmation is present only as the merge of the processed-message list
\* of the state.
ConfirmationOfProcessed(st) ==
    is_some(st.confirmation) => unwrap(st.confirmation)[2] = st.processed_messages

\* No processed message of the state carries a complaint.
NoComplaintProcessed(st) ==
    \A k \in 1..Len(st.processed_messages) : is_none(st.processed_messages[k].complaint)

\* C36: the state in memory and the persisted state both satisfy: an output
\* only with a complaint-free confirmation, a confirmation only as the merge
\* of the state's processed-message list, and no processed message with a
\* complaint.
C36_StateInvariant ==
    \A st \in {state, disk} :
        is_some(st) =>
            /\ OutputOnlyIfConfirmed(unwrap(st))
            /\ ConfirmationOfProcessed(unwrap(st))
            /\ NoComplaintProcessed(unwrap(st))

\* ------------------------------------- properties of the engine parameters
\* The engine parameters a persisted config stands for.
PersistedParameters(config) ==
    [nodes |-> config.nodes,
     threshold |-> config.threshold,
     random_oracle |-> [random_oracle_of |-> config.committee_id],
     old_share |-> config.my_old_share,
     old_threshold |-> config.old_threshold]

\* C37: the party with which create-message creates its message has the node
\* list, threshold, committee-id tag, old share and old threshold that the
\* command persists, and the party process-all builds has those of the config
\* it loaded.
C37_SameParameters ==
    /\ pc = "created" =>
           \A j \in DOMAIN log : log[j].op = "create_message" =>
               log[j].info = Some(PersistedParameters(unwrap(disk).config))
    /\ LoadCompleted =>
           \A j \in DOMAIN log : log[j].op = "new_party" =>
               log[j].info = Some(PersistedParameters(LoadedConfig))

\* A continuing member of a rotation builds its party in process-all with the
\* old share and old threshold of the loaded config.
C37_Witness ==
    /\ RotationRun
    /\ is_some(LoadedConfig.my_old_share)
    /\ \E j \in DOMAIN log :
           /\ log[j].op = "new_party"
           /\ unwrap(log[j].info).old_share = LoadedConfig.my_old_share
           /\ unwrap(log[j].info).old_threshold = Some(2)

\* The same member has created its message in create-message.
C37_CreateWitness ==
    /\ pc = "created"
    /\ is_some(unwrap(disk).config.my_old_share)
    /\ \E j \in DOMAIN log :
           /\ log[j].op = "create_message"
           /\ unwrap(log[j].info).old_share = unwrap(disk).config.my_old_share
           /\ unwrap(log[j].info).random_oracle = [random_oracle_of |-> "cRot"]

\* ------------------------------------- properties of create-message's writes
\* The return sites of the validations of create-message.
ValidationSites ==
    {"NotInit", "NotAMember", "NotRegistered", "NotInMembersInfo", "KeyMismatch",
     "OldShareForFresh", "RotationRole"}

\* C38: a create-message that fails at a validation has written nothing: no
\* party was built, no message artifact was written, nothing was saved, and
\* state.json is as the invocation found it.
C38_ValidationBeforeWrites ==
    (pc = "create_failed" /\ err \in ValidationSites) =>
        /\ disk = diskAtStart
        /\ ~LogHas("create_message")
        /\ ~LogHas("write_message")
        /\ ~LogHas("save")

\* A create-message refused for a role violation in a directory that holds
\* the state of an earlier run.
C38_Witness ==
    /\ pc = "create_failed"
    /\ err = "RotationRole"
    /\ is_some(diskAtStart)
    /\ disk = diskAtStart

\* C39: after a successful create-message state.json holds a state of the
\* committee of this invocation with an empty processed-message list, no
\* confirmation and no output, whatever the directory held before.
C39_CreateOverwrites ==
    pc = "created" =>
        /\ is_some(disk)
        /\ unwrap(disk).config.committee_id = unwrap(args).committee_id
        /\ unwrap(disk).config.my_old_share = unwrap(args).old_share
        /\ unwrap(disk).processed_messages = <<>>
        /\ is_none(unwrap(disk).confirmation)
        /\ is_none(unwrap(disk).output)
        /\ LogHas("save")

\* A create-message run in a directory where process-all had saved processed
\* messages and a confirmation: the progress is gone.
C39_Witness ==
    /\ pc = "created"
    /\ is_some(diskAtStart)
    /\ unwrap(diskAtStart).processed_messages # <<>>
    /\ is_some(unwrap(diskAtStart).confirmation)
    /\ unwrap(disk).processed_messages = <<>>
    /\ is_none(unwrap(disk).confirmation)

\* ------------------------------------------- properties of the new joiners
\* The address of the sender of message i in the committee of the running
\* invocation, and the old committee of that committee.
SenderAddr(i) == ledger[LoadedConfig.committee_id].members[messages[i].message.sender + 1]

OldCommitteeOfRun == ledger[unwrap(ledger[LoadedConfig.committee_id].old_committee_id)]

\* The sender of message i is a member of the new committee that was not in
\* the old one.
NewJoiner(i) == ~InMembers(OldCommitteeOfRun, SenderAddr(i))

\* C40: in a rotation a correctly signed message of a new joiner has no entry
\* in the persisted mapping, is never handed to the engine, and stops the
\* command, which fails without merging; every message handed to the engine
\* is that of a continuing member.
C40_NewJoinerRejected ==
    RotationRun =>
        /\ \A i \in 1..Len(messages) :
               (Authentic(i) /\ NewJoiner(i)) =>
                   /\ messages[i].message.sender
                          \notin DOMAIN unwrap(LoadedConfig.new_to_old_mapping)
                   /\ Calls("process", i) = 0
                   /\ i <= idx => (~LogHas("merge") /\ pc \notin {"complete", "done"})
                   /\ i < idx => pc = "failed"
                   /\ (i = idx /\ pc = "failed" /\ Calls("verify", i) = 1)
                          => err = "NotInMapping"
        /\ \A j \in DOMAIN log :
               log[j].op = "process" => ~NewJoiner(log[j].i)

\* A rotation run stopped at the authentic message of the new joiner a1,
\* after the message of a continuing member was processed.
C40_Witness ==
    /\ RotationRun
    /\ pc = "failed"
    /\ err = "NotInMapping"
    /\ Authentic(idx)
    /\ NewJoiner(idx)
    /\ SenderAddr(idx) = "a1"
    /\ Calls("verify", idx) = 1
    /\ LogHas("process")

====
